---------------------------- MODULE Spec2Model ----------------------------
(***************************************************************************)
(* Model of the TICON import pipeline of the tide database                 *)
(* (tools/import-ticon.ts, tools/filtering.ts, tools/station.ts,           *)
(* tools/datum.ts, src/search).                                            *)
(*                                                                         *)
(* Geometry.  Every station of the model lies on one meridian, so the      *)
(* haversine distance of two stations is R * |lat1 - lat2|.  A latitude    *)
(* is written as the length of its arc from a base point, in metres, and   *)
(* distances and thresholds are in metres (0.1 km = 100, 0.05 km = 50).    *)
(*                                                                         *)
(* Time.  Epoch dates are whole years; epochYears is the difference.       *)
(***************************************************************************)
EXTENDS Integers, Sequences, FiniteSets, TLC

(***************************************************************************)
(* Bounds of the model.                                                    *)
(***************************************************************************)
MaxCandidates == 3      \* rows (station groups) of one TICON batch
MaxRuns == 2            \* runs of the import script over the same input

(***************************************************************************)
(* Numbers.  NaN is the result of parseFloat on a non-numeric string; it   *)
(* lies outside the latitudes of the model, and every comparison with it   *)
(* is false, as in IEEE 754.                                               *)
(***************************************************************************)
NaN == -1

IsNaN(x) == x = NaN

Leq(a, b) == ~IsNaN(a) /\ ~IsNaN(b) /\ a <= b

Gt(a, b) == ~IsNaN(a) /\ ~IsNaN(b) /\ a > b

Abs(x) == IF x < 0 THEN -x ELSE x

ParseFloat(s) ==
    CASE s = "0" -> 0
      [] s = "50" -> 50
      [] s = "100" -> 100
      [] s = "60" -> 60
      [] s = "150" -> 150
      [] OTHER -> NaN

(***************************************************************************)
(* tools/filtering.ts                                                      *)
(***************************************************************************)
KnownSuffixes ==
    { "uhslc_fd", "bodc", "meds", "refmar", "bom", "jodc_jma", "smhi", "nhs",
      "ieo", "wsv", "rws", "rws_hist", "fmi", "dmi", "ispra", "noc", "eseas",
      "bfg", "icg", "usgs", "crms", "cdwr", "sfwmd", "nwfwmd", "ncdem", "hct",
      "cm", "uhslc_rq", "unam", "unam_hist", "jodc_pahb", "jodc_jcg",
      "jodc_giaj", "ttw", "mi_c", "mi_r", "cco", "da_idh", "da_mm", "gloss",
      "cmems", "cv", "uz", "da_sat" }

SOURCE_PRIORITY(suffix) ==
    CASE suffix = "uhslc_fd" -> 1   [] suffix = "bodc" -> 2
      [] suffix = "meds" -> 4       [] suffix = "refmar" -> 5
      [] suffix = "bom" -> 6        [] suffix = "jodc_jma" -> 7
      [] suffix = "smhi" -> 8       [] suffix = "nhs" -> 9
      [] suffix = "ieo" -> 10       [] suffix = "wsv" -> 20
      [] suffix = "rws" -> 21       [] suffix = "rws_hist" -> 22
      [] suffix = "fmi" -> 23       [] suffix = "dmi" -> 24
      [] suffix = "ispra" -> 25     [] suffix = "noc" -> 26
      [] suffix = "eseas" -> 27     [] suffix = "bfg" -> 28
      [] suffix = "icg" -> 29       [] suffix = "usgs" -> 40
      [] suffix = "crms" -> 41      [] suffix = "cdwr" -> 42
      [] suffix = "sfwmd" -> 43     [] suffix = "nwfwmd" -> 44
      [] suffix = "ncdem" -> 45     [] suffix = "hct" -> 46
      [] suffix = "cm" -> 47        [] suffix = "uhslc_rq" -> 80
      [] suffix = "unam" -> 85      [] suffix = "unam_hist" -> 86
      [] suffix = "jodc_pahb" -> 87 [] suffix = "jodc_jcg" -> 88
      [] suffix = "jodc_giaj" -> 89 [] suffix = "ttw" -> 90
      [] suffix = "mi_c" -> 91      [] suffix = "mi_r" -> 92
      [] suffix = "cco" -> 93       [] suffix = "da_idh" -> 94
      [] suffix = "da_mm" -> 95     [] suffix = "gloss" -> 96
      [] suffix = "cmems" -> 97     [] suffix = "cv" -> 97
      [] suffix = "uz" -> 97        [] suffix = "da_sat" -> 99

DEFAULT_PRIORITY == 50

(* A source id is the sequence of its '-'-separated segments:              *)
(* "abashiri-jpn-uhslc_fd" is <<"abashiri", "jpn", "uhslc_fd">>.           *)
getSourceSuffix(sourceId) == sourceId[Len(sourceId)]

getSourcePriority(sourceId) ==
    LET suffix == getSourceSuffix(sourceId)
    IN  IF suffix \in KnownSuffixes THEN SOURCE_PRIORITY(suffix)
        ELSE DEFAULT_PRIORITY

(* Disclaimers are the sequence of the sentences of the free text; the     *)
(* optional field is absent when the record has no "disclaimers" key.      *)
QualityPhrase == "quality control issues"

Includes(text, phrase) == \E k \in 1..Len(text) : text[k] = phrase

hasQualityIssues(station) ==
    IF "disclaimers" \in DOMAIN station
    THEN Includes(station.disclaimers, QualityPhrase)
    ELSE FALSE

epochYears(station) ==
    IF "epoch" \in DOMAIN station
    THEN station.epoch.end - station.epoch.start
    ELSE 0

(* String.prototype.localeCompare on source ids: the segments of the model *)
(* are lower-case ASCII words, which collate in the order of SegmentOrder. *)
SegmentOrder ==
    << "bodc", "cv", "da_sat", "noaa", "s1", "s2", "s3", "s4", "s5", "uz",
       "xyz" >>

SegmentRank(seg) == CHOOSE k \in 1..Len(SegmentOrder) : SegmentOrder[k] = seg

RECURSIVE localeCompare(_, _)
localeCompare(id1, id2) ==
    IF id1 = <<>> /\ id2 = <<>> THEN 0
    ELSE IF id1 = <<>> THEN -1
    ELSE IF id2 = <<>> THEN 1
    ELSE IF SegmentRank(Head(id1)) < SegmentRank(Head(id2)) THEN -1
    ELSE IF SegmentRank(Head(id1)) > SegmentRank(Head(id2)) THEN 1
    ELSE localeCompare(Tail(id1), Tail(id2))

(* compareStationPriority without its rule 4 *)
compareWithoutTieBreak(station1, station2) ==
    LET issues1 == hasQualityIssues(station1)
        issues2 == hasQualityIssues(station2)
        years1 == epochYears(station1)
        years2 == epochYears(station2)
        priority1 == getSourcePriority(station1.source.id)
        priority2 == getSourcePriority(station2.source.id)
    IN  IF issues1 # issues2 THEN (IF issues1 THEN 1 ELSE -1)
        ELSE IF years1 # years2 THEN years2 - years1
        ELSE priority1 - priority2

(* compareStationPriority with rule 2 before rule 1 *)
compareYearsFirst(station1, station2) ==
    LET issues1 == hasQualityIssues(station1)
        issues2 == hasQualityIssues(station2)
        years1 == epochYears(station1)
        years2 == epochYears(station2)
        priority1 == getSourcePriority(station1.source.id)
        priority2 == getSourcePriority(station2.source.id)
    IN  IF years1 # years2 THEN years2 - years1
        ELSE IF issues1 # issues2 THEN (IF issues1 THEN 1 ELSE -1)
        ELSE IF priority1 # priority2 THEN priority1 - priority2
        ELSE localeCompare(station1.source.id, station2.source.id)

compareStationPriority(station1, station2) ==
    LET issues1 == hasQualityIssues(station1)
        issues2 == hasQualityIssues(station2)
        years1 == epochYears(station1)
        years2 == epochYears(station2)
        priority1 == getSourcePriority(station1.source.id)
        priority2 == getSourcePriority(station2.source.id)
    IN  IF issues1 # issues2 THEN (IF issues1 THEN 1 ELSE -1)
        ELSE IF years1 # years2 THEN years2 - years1
        ELSE IF priority1 # priority2 THEN priority1 - priority2
        ELSE localeCompare(station1.source.id, station2.source.id)

(* distance: haversine, for two points of one meridian.                    *)
distance(lat1, lat2) ==
    IF IsNaN(lat1) \/ IsNaN(lat2) THEN NaN ELSE Abs(lat2 - lat1)

MIN_DISTANCE_TO_NOAA == 100

MIN_DISTANCE_TICON == 50

QUALITY_DISTANCE == 100


(***************************************************************************)
(* tools/datum.ts.  The harmonic predictor is an external collaborator,    *)
(* deterministic given its inputs: the datums of a constituent list over   *)
(* a window stand for themselves.                                          *)
(***************************************************************************)
NINETEEN_YEARS == 19

(* new Date(): the year the clock shows when a tool runs *)
Today == 2026

(* resolveEpoch without the clamp to nineteen years *)
resolveEpochUnclamped(epochSpec, now) ==
    LET end == IF "end" \in DOMAIN epochSpec THEN epochSpec.end ELSE now
        start == IF "start" \in DOMAIN epochSpec THEN epochSpec.start
                 ELSE end - NINETEEN_YEARS
    IN  [start |-> start, end |-> end, lengthYears |-> end - start]

(* resolveEpoch: the defaults of the destructured parameter are evaluated  *)
(* left to right, end from the clock, start from end; now is the clock.    *)
resolveEpoch(epochSpec, now) ==
    LET end == IF "end" \in DOMAIN epochSpec THEN epochSpec.end ELSE now
        start == IF "start" \in DOMAIN epochSpec THEN epochSpec.start
                 ELSE end - NINETEEN_YEARS
        lengthYears == end - start
    IN  IF lengthYears > 19
        THEN [start |-> end - NINETEEN_YEARS, end |-> end, lengthYears |-> 19]
        ELSE [start |-> start, end |-> end, lengthYears |-> lengthYears]

SyntheticDatums(constituents, start, end) ==
    [of |-> constituents, from |-> start, to |-> end]

(* computeDatums: the TidalDatumsResult, or a thrown error when the        *)
(* synthesized timeline is empty.                                          *)
computeDatums(constituents, epochSpec) ==
    LET r == resolveEpoch(epochSpec, Today)
    IN  IF constituents = <<>>
        THEN [threw |-> TRUE]
        ELSE [threw |-> FALSE,
              epochStart |-> r.start,
              epochEnd |-> r.end,
              lengthYears |-> r.lengthYears,
              datums |-> SyntheticDatums(constituents, r.start, r.end)]

(***************************************************************************)
(* State                                                                   *)
(***************************************************************************)
VARIABLES
    rows,             \* data.csv grouped by tide_gauge_name, in file order
    stations,         \* the canonical station set built into dist/index.js
    files,            \* data/ticon/<source id>.json: candidate id -> record
    forceDatums,      \* FORCE_DATUMS=1
    candidates,       \* Phase 1 result
    pc,               \* position of main()
    i,                \* index of the running for-loop
    removed,          \* Set<string> removed
    processed,        \* Set<string> processed (Step 3)
    noaaSourceCount,
    nearNoaaCount,
    qualityRemovals,
    duplicateCount,
    surviving,
    deleted,
    saved,
    reused,
    errors,
    errorLog,         \* ids written by console.error("Error processing <id>")
    run,              \* number of the current run of the script
    prev,             \* <<removed>> of the previous run's filter summary
    cmp,              \* arguments and results of a comparator property test
    update,           \* a run of tools/update-noaa-stations.ts
    query,            \* arguments and results of a call of near / nearest
    series            \* arguments and results of a call into tools/datum.ts

vars ==
    << rows, stations, files, forceDatums, candidates, pc, i, removed,
       processed, noaaSourceCount, nearNoaaCount, qualityRemovals,
       duplicateCount, surviving, deleted, saved, reused, errors, errorLog,
       run, prev, cmp, update, query, series >>

otherTools == << update, query, series >>

inputVars == << rows, stations, forceDatums, cmp, otherTools >>

filterCounters ==
    << noaaSourceCount, nearNoaaCount, qualityRemovals, duplicateCount >>

saveCounters == << deleted, saved, reused, errors, errorLog >>

(***************************************************************************)
(* src/search: near, over the canonical stations of the built package.     *)
(* geokdbush's around() stops at the first queued point whose distance is  *)
(* greater than maxDistance and returns at most maxResults ids, nearest    *)
(* first.                                                                  *)
(***************************************************************************)
RECURSIVE NearestFirst(_, _, _)
NearestFirst(S, point, maxResults) ==
    IF S = {} \/ maxResults = 0 THEN <<>>
    ELSE LET s == CHOOSE s \in S : \A t \in S :
                      ~Gt(distance(point, s.latitude), distance(point, t.latitude))
         IN  << <<s, distance(point, s.latitude)>> >>
                 \o NearestFirst(S \ {s}, point, maxResults - 1)

(* around() without the cut at maxDistance *)
nearAnyDistance(latitude, maxDistance, maxResults, filter) ==
    NearestFirst({ s \in stations : filter[s] }, latitude, maxResults)

near(latitude, maxDistance, maxResults, filter) ==
    NearestFirst({ s \in stations : filter[s]
                       /\ ~Gt(distance(latitude, s.latitude), maxDistance) },
                 latitude, maxResults)

(* near() called without the filter option *)
IsAnyStation(s) == TRUE

(* filter: (s) => s.id.startsWith("noaa/") *)
IsNoaaStation(s) == s.id[1] = "noaa"

(***************************************************************************)
(* tools/import-ticon.ts                                                   *)
(***************************************************************************)
candidateId(c) == <<"ticon">> \o c.source.id

ConvertRow(row) ==
    [ latitude |-> ParseFloat(row.lat),
      disclaimers |-> row.record_quality,
      source |-> [id |-> row.tide_gauge_name],
      harmonic_constituents |-> row.constituents,
      epoch |-> [start |-> row.start_date, end |-> row.end_date] ]

(* Step 1a restricted to the candidates that lie beside a NOAA station *)
IsNoaaSourcedNearNoaa(c) ==
    /\ getSourceSuffix(c.source.id) = "noaa"
    /\ \E s \in stations :
         s.id[1] = "noaa" /\ Leq(distance(c.latitude, s.latitude), 100)

IsNoaaSourced(c) == getSourceSuffix(c.source.id) = "noaa"

(* the NOAA query with the TICON threshold *)
NearNoaaWithin50(c) ==
    near(c.latitude, MIN_DISTANCE_TICON, 1,
         [s \in stations |-> IsNoaaStation(s)])

NearNoaa(c) ==
    near(c.latitude, MIN_DISTANCE_TO_NOAA, 1,
         [s \in stations |-> IsNoaaStation(s)])

(* Step 2, inner loop, without the test removed.has(otherId) *)
BetterAlternativesAmongAll(c, rem) ==
    { k \in 1..Len(candidates) :
        /\ candidateId(candidates[k]) # candidateId(c)
        /\ ~Includes(candidates[k].disclaimers, QualityPhrase)
        /\ Leq(distance(c.latitude, candidates[k].latitude), QUALITY_DISTANCE) }

(* Step 2, inner loop, with the threshold of Step 3 *)
BetterAlternativesWithin50(c, rem) ==
    { k \in 1..Len(candidates) :
        /\ candidateId(candidates[k]) # candidateId(c)
        /\ candidateId(candidates[k]) \notin rem
        /\ ~Includes(candidates[k].disclaimers, QualityPhrase)
        /\ Leq(distance(c.latitude, candidates[k].latitude),
               MIN_DISTANCE_TICON) }

(* Step 2, inner loop, looking only at the candidates before c in the batch *)
BetterAlternativesEarlier(c, rem) ==
    { k \in 1..Len(candidates) :
        /\ candidateId(candidates[k]) # candidateId(c)
        /\ candidateId(candidates[k]) \notin rem
        /\ ~Includes(candidates[k].disclaimers, QualityPhrase)
        /\ Leq(distance(c.latitude, candidates[k].latitude), QUALITY_DISTANCE)
        /\ \E j \in (k + 1)..Len(candidates) :
               candidateId(candidates[j]) = candidateId(c) }

(* Step 2, inner loop: the candidates that supersede a flagged candidate c *)
BetterAlternatives(c, rem) ==
    { k \in 1..Len(candidates) :
        /\ candidateId(candidates[k]) # candidateId(c)
        /\ candidateId(candidates[k]) \notin rem
        /\ ~Includes(candidates[k].disclaimers, QualityPhrase)
        /\ Leq(distance(c.latitude, candidates[k].latitude), QUALITY_DISTANCE) }

(* Step 3, inner loop, without the test processed.has(otherId) *)
IsNearbyIgnoringProcessed(c, other, rem, proc) ==
    /\ candidateId(other) # candidateId(c)
    /\ candidateId(other) \notin rem
    /\ Leq(distance(c.latitude, other.latitude), MIN_DISTANCE_TICON)

(* Step 3, inner loop, without the test removed.has(otherId) *)
IsNearbyAmongRemoved(c, other, rem, proc) ==
    /\ candidateId(other) # candidateId(c)
    /\ candidateId(other) \notin proc
    /\ Leq(distance(c.latitude, other.latitude), MIN_DISTANCE_TICON)

(* Step 3, inner loop: nearby, in batch order *)
IsNearby(c, other, rem, proc) ==
    /\ candidateId(other) # candidateId(c)
    /\ candidateId(other) \notin rem
    /\ candidateId(other) \notin proc
    /\ Leq(distance(c.latitude, other.latitude), MIN_DISTANCE_TICON)

Nearby(c, rem, proc) ==
    LET Test(other) == IsNearby(c, other, rem, proc)
    IN  SelectSeq(candidates, Test)

(* an insertion that never compares: the member goes to the end *)
InsertSortedAppend(x, s) == s \o <<x>>

RECURSIVE InsertSorted(_, _)
InsertSorted(x, s) ==
    IF s = <<>> THEN <<x>>
    ELSE IF compareStationPriority(x, Head(s)) < 0 THEN <<x>> \o s
    ELSE <<Head(s)>> \o InsertSorted(x, Tail(s))

(* the group left in batch order *)
SortGroupSkipped(group) == group

(* the member found last is kept, whatever its rank *)
SortGroupLastFirst(group) ==
    <<group[Len(group)]>> \o SubSeq(group, 1, Len(group) - 1)

(* group.sort((a, b) => compareStationPriority(a, b)) *)
RECURSIVE SortGroup(_)
SortGroup(group) ==
    IF group = <<>> THEN <<>>
    ELSE InsertSorted(group[Len(group)],
                      SortGroup(SubSeq(group, 1, Len(group) - 1)))

Ids(seq) == { candidateId(seq[k]) : k \in 1..Len(seq) }

(***************************************************************************)
(* Inputs                                                                  *)
(***************************************************************************)
M2S2 == << [name |-> "M2", amplitude |-> 120, phase |-> 45],
           [name |-> "S2", amplitude |-> 30, phase |-> 80] >>

M2Only == << [name |-> "M2", amplitude |-> 110, phase |-> 45] >>

Clean20 ==
    [record_quality |-> <<>>, start_date |-> 1990, end_date |-> 2010,
     suffix |-> "bodc"]

Clean5 ==
    [record_quality |-> <<>>, start_date |-> 2015, end_date |-> 2020,
     suffix |-> "bodc"]

Flagged20 ==
    [record_quality |-> <<QualityPhrase>>, start_date |-> 1990,
     end_date |-> 2010, suffix |-> "bodc"]

Noaa20 ==
    [record_quality |-> <<>>, start_date |-> 1990, end_date |-> 2010,
     suffix |-> "noaa"]

StemNames == << "s1", "s2", "s3", "s4", "s5" >>

Row(k, lat, profile) ==
    [ tide_gauge_name |-> << StemNames[k], profile.suffix >>,
      lat |-> lat,
      record_quality |-> profile.record_quality,
      start_date |-> profile.start_date,
      end_date |-> profile.end_date,
      constituents |-> M2S2 ]

Batches(Lats, Profiles) ==
    { [k \in 1..MaxCandidates |-> Row(k, f[k][1], f[k][2])] :
        f \in [1..MaxCandidates -> Lats \X Profiles] }

Noaa200 == [id |-> <<"noaa", "9414290">>, latitude |-> 200]

(* The record a previous run persisted for a row: its datums were computed *)
(* from the constituents the row had then.                                 *)
Persisted(row, constituents) ==
    LET c == ConvertRow(row)
        r == resolveEpoch(c.epoch, Today)
    IN  [ latitude |-> c.latitude,
          disclaimers |-> c.disclaimers,
          source |-> c.source,
          harmonic_constituents |-> constituents,
          epoch |-> [start |-> r.start, end |-> r.end],
          datums |-> SyntheticDatums(constituents, r.start, r.end) ]

NoFiles == [id \in {} |-> {}]

InitialFiles(opt, rws) ==
    IF opt = "none" THEN NoFiles
    ELSE [ id \in { candidateId(ConvertRow(rws[k])) : k \in 1..Len(rws) } |->
             LET k == CHOOSE k \in 1..Len(rws) :
                          candidateId(ConvertRow(rws[k])) = id
             IN  Persisted(rws[k], IF opt = "same" THEN rws[k].constituents
                                   ELSE M2Only) ]

(* The stations of the package, as built from data/: the NOAA stations and *)
(* one station per persisted TICON record.                                 *)
BuildStations(noaa, fs) ==
    noaa \cup { [id |-> id, latitude |-> fs[id].latitude] : id \in DOMAIN fs }

InitWith(Lats, Profiles, NoaaSets, FileOpts, ForceOpts) ==
    /\ rows \in Batches(Lats, Profiles)
    /\ \E opt \in FileOpts : files = InitialFiles(opt, rows)
    /\ \E noaa \in NoaaSets : stations = BuildStations(noaa, files)
    /\ forceDatums \in ForceOpts
    /\ candidates = <<>>
    /\ pc = "convert"
    /\ i = 1
    /\ removed = {}
    /\ processed = {}
    /\ noaaSourceCount = 0
    /\ nearNoaaCount = 0
    /\ qualityRemovals = 0
    /\ duplicateCount = 0
    /\ surviving = <<>>
    /\ deleted = 0
    /\ saved = 0
    /\ reused = 0
    /\ errors = 0
    /\ errorLog = {}
    /\ run = 1
    /\ prev = <<>>
    /\ cmp = <<>>
    /\ update = <<>>
    /\ query = <<>>
    /\ series = <<>>

(* The whole script: batches with an unparsable latitude, files left by a  *)
(* previous run.                                                           *)
Init ==
    InitWith({"0", "60", ""}, {Clean20, Clean5}, {{Noaa200}},
             {"none", "same", "changed"}, BOOLEAN)

(* The filter phase: three latitudes 50 m apart, the four profiles.        *)
InitFilter ==
    InitWith({"0", "50", "100"}, {Clean20, Clean5, Flagged20, Noaa20},
             {{}, {Noaa200}}, {"same"}, {FALSE})

(***************************************************************************)
(* Actions of main()                                                       *)
(***************************************************************************)
(* a for-loop over candidates moves on, or falls through to the next step  *)
Advance(next) ==
    IF i < Len(candidates)
    THEN i' = i + 1 /\ pc' = pc
    ELSE i' = 1 /\ pc' = next

(* Phase 1: Convert *)
Convert ==
    /\ pc = "convert"
    /\ candidates' = [k \in 1..Len(rows) |-> ConvertRow(rows[k])]
    /\ pc' = "step1a"
    /\ i' = 1
    /\ UNCHANGED << inputVars, files, removed, processed, filterCounters,
                    surviving, saveCounters, run, prev >>

(* Step 1a: remove NOAA-sourced candidates *)
Step1a ==
    /\ pc = "step1a"
    /\ LET c == candidates[i]
       IN  IF IsNoaaSourced(c)
           THEN /\ removed' = removed \cup {candidateId(c)}
                /\ noaaSourceCount' = noaaSourceCount + 1
           ELSE UNCHANGED << removed, noaaSourceCount >>
    /\ Advance("step1b")
    /\ UNCHANGED << inputVars, files, candidates, processed, nearNoaaCount,
                    qualityRemovals, duplicateCount, surviving, saveCounters,
                    run, prev >>

(* Step 1b: remove candidates within 100 m of a NOAA station *)
Step1b ==
    /\ pc = "step1b"
    /\ LET c == candidates[i]
           id == candidateId(c)
       IN  IF id \notin removed /\ Len(NearNoaa(c)) > 0
           THEN /\ removed' = removed \cup {id}
                /\ nearNoaaCount' = nearNoaaCount + 1
           ELSE UNCHANGED << removed, nearNoaaCount >>
    /\ Advance("step2")
    /\ UNCHANGED << inputVars, files, candidates, processed, noaaSourceCount,
                    qualityRemovals, duplicateCount, surviving, saveCounters,
                    run, prev >>

(* Step 2: remove flagged candidates that have a better alternative nearby *)
Step2 ==
    /\ pc = "step2"
    /\ LET c == candidates[i]
           id == candidateId(c)
       IN  IF /\ id \notin removed
              /\ Includes(c.disclaimers, QualityPhrase)
              /\ BetterAlternatives(c, removed) # {}
           THEN /\ removed' = removed \cup {id}
                /\ qualityRemovals' = qualityRemovals + 1
           ELSE UNCHANGED << removed, qualityRemovals >>
    /\ Advance("step3")
    /\ UNCHANGED << inputVars, files, candidates, processed, noaaSourceCount,
                    nearNoaaCount, duplicateCount, surviving, saveCounters,
                    run, prev >>

(* Step 3: remove duplicate/nearby candidates, keeping the highest priority *)
Step3 ==
    /\ pc = "step3"
    /\ LET c == candidates[i]
           id == candidateId(c)
           nearby == Nearby(c, removed, processed)
           group == SortGroup(<<c>> \o nearby)
       IN  IF id \in removed \/ id \in processed
           THEN UNCHANGED << removed, processed, duplicateCount >>
           ELSE IF Len(nearby) = 0
           THEN /\ processed' = processed \cup {id}
                /\ UNCHANGED << removed, duplicateCount >>
           ELSE /\ processed' = processed \cup Ids(group)
                /\ removed' = removed \cup Ids(Tail(group))
                /\ duplicateCount' = duplicateCount + Len(Tail(group))
    /\ Advance("summary")
    /\ UNCHANGED << inputVars, files, candidates, noaaSourceCount,
                    nearNoaaCount, qualityRemovals, surviving, saveCounters,
                    run, prev >>

(* Filter summary *)
Summary ==
    /\ pc = "summary"
    /\ LET Kept(c) == candidateId(c) \notin removed
       IN  surviving' = SelectSeq(candidates, Kept)
    /\ pc' = "delete"
    /\ UNCHANGED << inputVars, files, candidates, i, removed, processed,
                    filterCounters, saveCounters, run, prev >>

NextFilter == Convert \/ Step1a \/ Step1b \/ Step2 \/ Step3 \/ Summary

SpecFilter == InitFilter /\ [][NextFilter]_vars

(* The filter alone on a chain of four positions 50 m apart, with no NOAA  *)
(* station in reach: candidates more than 100 m apart exist.               *)
InitChain ==
    InitWith({"0", "50", "100", "150"}, {Clean20, Clean5, Flagged20},
             {{}}, {"same"}, {FALSE})

SpecChain == InitChain /\ [][NextFilter]_vars

(***************************************************************************)
(* Files of data/ticon                                                     *)
(***************************************************************************)
(* unlink of a path that never exists *)
UnlinkNothing(fs, ids) == fs

Unlink(fs, ids) == [id \in (DOMAIN fs) \ ids |-> fs[id]]

WriteFile(fs, id, data) ==
    [x \in (DOMAIN fs) \cup {id} |-> IF x = id THEN data ELSE fs[x]]

(* Delete data files for rejected stations *)
DeleteRejected ==
    /\ pc = "delete"
    /\ files' = Unlink(files, removed)
    /\ deleted' = Cardinality(removed \cap DOMAIN files)
    /\ pc' = "save"
    /\ i' = 1
    /\ saved' = 0
    /\ reused' = 0
    /\ errors' = 0
    /\ UNCHANGED << inputVars, candidates, removed, processed, filterCounters,
                    surviving, errorLog, run, prev >>

(* Phase 3, one surviving candidate: the datums to persist.                *)
(* existing.datums of the persisted record is reused unless FORCE_DATUMS.  *)
ReusesExisting(id) ==
    /\ ~forceDatums
    /\ id \in DOMAIN files
    /\ "datums" \in DOMAIN files[id]

(* result.start and result.end of the computeDatums result: reading a      *)
(* property the result does not have gives undefined, and calling          *)
(* toISOString on it throws a TypeError.                                   *)
ResultEpoch(result) ==
    IF "start" \in DOMAIN result /\ "end" \in DOMAIN result
    THEN [threw |-> FALSE, epoch |-> [start |-> result.start, end |-> result.end]]
    ELSE [threw |-> TRUE]

(* the body of the try block up to normalize(): what is saved, or a throw  *)
Prepared(c) ==
    LET id == candidateId(c)
    IN  IF ReusesExisting(id)
        THEN [threw |-> FALSE,
              datums |-> files[id].datums,
              epoch |-> IF "epoch" \in DOMAIN files[id]
                        THEN files[id].epoch ELSE c.epoch]
        ELSE LET result == computeDatums(c.harmonic_constituents, c.epoch)
             IN  IF result.threw \/ ResultEpoch(result).threw
                 THEN [threw |-> TRUE]
                 ELSE [threw |-> FALSE,
                       datums |-> result.datums,
                       epoch |-> ResultEpoch(result).epoch]

StationData(c, datums, epoch) ==
    [ latitude |-> c.latitude,
      disclaimers |-> c.disclaimers,
      source |-> c.source,
      harmonic_constituents |-> c.harmonic_constituents,
      epoch |-> epoch,
      datums |-> datums ]

(* Phase 3 without the try/catch around one candidate: the first error     *)
(* ends the loop                                                           *)
SaveStationUncaught ==
    /\ pc = "save"
    /\ i <= Len(surviving)
    /\ LET c == surviving[i]
           id == candidateId(c)
           p == Prepared(c)
       IN  /\ reused' = IF ReusesExisting(id) THEN reused + 1 ELSE reused
           /\ \E envThrows \in BOOLEAN :
                IF p.threw \/ envThrows
                THEN /\ errors' = errors + 1
                     /\ errorLog' = errorLog \cup {id}
                     /\ pc' = "done"
                     /\ UNCHANGED << files, saved >>
                ELSE /\ files' = WriteFile(files, id,
                                           StationData(c, p.datums, p.epoch))
                     /\ saved' = saved + 1
                     /\ pc' = pc
                     /\ UNCHANGED << errors, errorLog >>
    /\ i' = i + 1
    /\ UNCHANGED << inputVars, candidates, removed, processed,
                    filterCounters, surviving, deleted, run, prev >>

(* normalize() throws for an unknown country or timezone and save() for an *)
(* I/O error: either is an outcome of the environment.                     *)
SaveStation ==
    /\ pc = "save"
    /\ i <= Len(surviving)
    /\ LET c == surviving[i]
           id == candidateId(c)
           p == Prepared(c)
       IN  /\ reused' = IF ReusesExisting(id) THEN reused + 1 ELSE reused
           /\ \E envThrows \in BOOLEAN :
                IF p.threw \/ envThrows
                THEN /\ errors' = errors + 1
                     /\ errorLog' = errorLog \cup {id}
                     /\ UNCHANGED << files, saved >>
                ELSE /\ files' = WriteFile(files, id,
                                           StationData(c, p.datums, p.epoch))
                     /\ saved' = saved + 1
                     /\ UNCHANGED << errors, errorLog >>
    /\ i' = i + 1
    /\ UNCHANGED << inputVars, candidates, pc, removed, processed,
                    filterCounters, surviving, deleted, run, prev >>

Finish ==
    /\ pc = "save"
    /\ i > Len(surviving)
    /\ pc' = "done"
    /\ UNCHANGED << inputVars, files, candidates, i, removed, processed,
                    filterCounters, surviving, saveCounters, run, prev >>

(* The script is run again on the same TICON input; the files of data/     *)
(* are what the previous run left, and the package may have been built     *)
(* again from them.                                                        *)
Rerun ==
    /\ pc = "done"
    /\ run < MaxRuns
    /\ run' = run + 1
    /\ prev' = <<removed>>
    /\ candidates' = <<>>
    /\ pc' = "convert"
    /\ i' = 1
    /\ removed' = {}
    /\ processed' = {}
    /\ noaaSourceCount' = 0
    /\ nearNoaaCount' = 0
    /\ qualityRemovals' = 0
    /\ duplicateCount' = 0
    /\ surviving' = <<>>
    /\ deleted' = 0
    /\ saved' = 0
    /\ reused' = 0
    /\ errors' = 0
    /\ errorLog' = {}
    /\ \E rebuild \in BOOLEAN :
           stations' = IF rebuild
                       THEN BuildStations({ s \in stations : s.id[1] = "noaa" },
                                          files)
                       ELSE stations
    /\ UNCHANGED << rows, forceDatums, cmp, otherTools, files >>

Next ==
    \/ Convert \/ Step1a \/ Step1b \/ Step2 \/ Step3 \/ Summary
    \/ DeleteRejected \/ SaveStation \/ Finish \/ Rerun

Spec == Init /\ [][Next]_vars

(***************************************************************************)
(* Property test of the Priority Comparator: three station records drawn   *)
(* from CompareStations, and the comparisons among them.                   *)
(***************************************************************************)
Absent == [x \in {} |-> {}]

CompareIds ==
    { <<"s1", "bodc">>, <<"s2", "bodc">>, <<"s1", "xyz">>, <<"s1", "cv">>,
      <<"s1", "uz">> }

CompareStations ==
    { [source |-> [id |-> sid]] @@ d @@ e :
        sid \in CompareIds,
        d \in { Absent, [disclaimers |-> <<>>],
                [disclaimers |-> <<QualityPhrase>>] },
        e \in { Absent, [epoch |-> [start |-> 1990, end |-> 2010]],
                [epoch |-> [start |-> 2015, end |-> 2020]] } }

InitCompare ==
    /\ cmp \in { [args |-> <<a, b, c>>, out |-> <<>>] :
                   a \in CompareStations, b \in CompareStations,
                   c \in CompareStations }
    /\ pc = "compare"
    /\ rows = <<>>
    /\ stations = {}
    /\ files = NoFiles
    /\ forceDatums = FALSE
    /\ candidates = <<>>
    /\ i = 1
    /\ removed = {}
    /\ processed = {}
    /\ noaaSourceCount = 0
    /\ nearNoaaCount = 0
    /\ qualityRemovals = 0
    /\ duplicateCount = 0
    /\ surviving = <<>>
    /\ deleted = 0
    /\ saved = 0
    /\ reused = 0
    /\ errors = 0
    /\ errorLog = {}
    /\ run = 1
    /\ prev = <<>>
    /\ update = <<>>
    /\ query = <<>>
    /\ series = <<>>

ComparePriority ==
    /\ pc = "compare"
    /\ LET a == cmp.args[1]
           b == cmp.args[2]
           c == cmp.args[3]
       IN  cmp' = [cmp EXCEPT !.out =
                     [ aa |-> compareStationPriority(a, a),
                       ab |-> compareStationPriority(a, b),
                       ba |-> compareStationPriority(b, a),
                       bc |-> compareStationPriority(b, c),
                       ac |-> compareStationPriority(a, c) ]]
    /\ pc' = "compared"
    /\ UNCHANGED << rows, stations, forceDatums, files, candidates, i,
                    removed, processed, filterCounters, surviving,
                    saveCounters, run, prev, otherTools >>

NextCompare == ComparePriority

SpecCompare == InitCompare /\ [][NextCompare]_vars

(***************************************************************************)
(* The import pipeline at rest: the state in which the other tools run.    *)
(***************************************************************************)
pipelineVars ==
    << rows, stations, files, forceDatums, candidates, i, removed, processed,
       filterCounters, surviving, saveCounters, run, prev, cmp >>

PipelineIdle ==
    /\ rows = <<>>
    /\ files = NoFiles
    /\ forceDatums = FALSE
    /\ candidates = <<>>
    /\ i = 1
    /\ removed = {}
    /\ processed = {}
    /\ noaaSourceCount = 0
    /\ nearNoaaCount = 0
    /\ qualityRemovals = 0
    /\ duplicateCount = 0
    /\ surviving = <<>>
    /\ deleted = 0
    /\ saved = 0
    /\ reused = 0
    /\ errors = 0
    /\ errorLog = {}
    /\ run = 1
    /\ prev = <<>>
    /\ cmp = <<>>

(***************************************************************************)
(* tools/update-noaa-stations.ts                                           *)
(***************************************************************************)
MaxStations == 3        \* stations in the metadata list fetched from NOAA

Undefined == "undefined"

(* a value that an if (!x) takes for absent *)
Falsy(x) == x = Undefined \/ x = ""

Threw(kind, names) == [threw |-> TRUE, error |-> [kind |-> kind, names |-> names]]

(* station.ts normalize(): timezone lookup, then chart_datum from          *)
(* getChartDatum(country, station.datums), whose `preferred in             *)
(* availableDatums` throws a TypeError when the station has no datums      *)
(* (CHART_DATUMS has an entry for "United States").                        *)
normalize(station, timezoneFound) ==
    IF ~timezoneFound THEN Threw("Timezone", {station.source.id})
    ELSE IF "datums" \notin DOMAIN station THEN Threw("TypeError", {})
    ELSE [threw |-> FALSE,
          station |-> station @@ [timezone |-> "tz", chart_datum |-> "MLLW"]]

(* station.ts save(source, data), by the arguments of the call: the path   *)
(* is read from data.source.id, a TypeError when data is undefined.        *)
save(args) ==
    IF Len(args) < 2 THEN Threw("TypeError", {})
    ELSE [threw |-> FALSE, path |-> <<args[1], args[2].source.id>>,
          data |-> args[2]]

(* saveStation(data): await save(data); return data *)
saveStation(data) ==
    LET w == save(<<data>>)
    IN  IF w.threw THEN w ELSE w @@ [returned |-> data]

(* buildStation(meta), with the idMap of the run; detailsFound and         *)
(* timezoneFound are the answers of the NOAA API and of geo-tz.            *)
buildStation(meta, idMap, detailsFound, timezoneFound) ==
    LET station == [ type |-> IF meta.type = "S" THEN "subordinate"
                              ELSE "reference",
                     source |-> [id |-> meta.id] ]
    IN  IF meta.type = "S"
        THEN LET ref == meta.tidepredoffsets.refStationId
                 refId == IF ref \in DOMAIN idMap THEN idMap[ref]
                          ELSE Undefined
             IN  IF Falsy(refId)
                 THEN Threw("ReferenceNotFound", {ref, meta.id})
                 ELSE normalize(station @@ [offsets |-> [reference |-> refId]],
                                timezoneFound)
        ELSE IF ~detailsFound THEN Threw("NoData", {meta.id})
        ELSE normalize(station @@ [harmonic_constituents |-> M2S2,
                                   datums |-> [MLLW |-> 0],
                                   disclaimers |-> <<>>],
                       timezoneFound)

(* the entries of stations.json *)
NoaaMetas ==
    { [id |-> id, type |-> "R"] : id \in {"n1", "n2"} }
    \cup { [id |-> id, type |-> "S",
            tidepredoffsets |-> [refStationId |-> ref]] :
             id \in {"n2", "n3"}, ref \in {"n1", "n2", "n3", "n9"} }

StationsJson ==
    { s \in [1..MaxStations -> NoaaMetas] : TRUE }

OfType(metas, type) ==
    LET Is(m) == m.type = type IN SelectSeq(metas, Is)

referenceStations == OfType(update.stations, "R")

subordinateStations == OfType(update.stations, "S")

InitNoaa ==
    /\ PipelineIdle
    /\ stations = {}
    /\ query = <<>>
    /\ series = <<>>
    /\ pc = "references"
    /\ \E metas \in StationsJson :
         update = [ stations |-> metas,
                    idMap |-> [id \in {} |-> Undefined],
                    written |-> [path \in {} |-> Undefined],
                    at |-> 1,
                    error |-> <<>> ]

(* the value (await saveStation(...)).id *)
SavedId(data) == IF "id" \in DOMAIN data THEN data.id ELSE Undefined

(* idMap.set(meta.id, (await saveStation(await buildStation(meta))).id);   *)
(* an exception leaves main() and is printed by main().catch.              *)
CreateStation(meta, next) ==
    \E detailsFound \in BOOLEAN, timezoneFound \in BOOLEAN :
        LET b == buildStation(meta, update.idMap, detailsFound, timezoneFound)
            w == IF b.threw THEN b ELSE saveStation(b.station)
        IN  IF w.threw
            THEN /\ update' = [update EXCEPT !.error = w.error]
                 /\ pc' = "failed"
            ELSE /\ update' =
                      [update EXCEPT
                         !.written = [path \in DOMAIN @ \cup {w.path} |->
                                        IF path = w.path THEN w.data
                                        ELSE @[path]],
                         !.idMap = [id \in DOMAIN @ \cup {meta.id} |->
                                      IF id = meta.id THEN SavedId(w.returned)
                                      ELSE @[id]],
                         !.at = next]
                 /\ pc' = pc

CreateReference ==
    /\ pc = "references"
    /\ update.at <= Len(referenceStations)
    /\ CreateStation(referenceStations[update.at], update.at + 1)
    /\ UNCHANGED << pipelineVars, query, series >>

ReferencesDone ==
    /\ pc = "references"
    /\ update.at > Len(referenceStations)
    /\ pc' = "subordinates"
    /\ update' = [update EXCEPT !.at = 1]
    /\ UNCHANGED << pipelineVars, query, series >>

CreateSubordinate ==
    /\ pc = "subordinates"
    /\ update.at <= Len(subordinateStations)
    /\ LET meta == subordinateStations[update.at]
       IN  IF meta.id \in DOMAIN update.idMap
           THEN /\ update' = [update EXCEPT
                                !.error = [kind |-> "Duplicate",
                                           names |-> {meta.id}]]
                /\ pc' = "failed"
           ELSE IF meta.id = meta.tidepredoffsets.refStationId
           THEN /\ update' = [update EXCEPT !.at = @ + 1]
                /\ pc' = pc
           ELSE CreateStation(meta, update.at + 1)
    /\ UNCHANGED << pipelineVars, query, series >>

SubordinatesDone ==
    /\ pc = "subordinates"
    /\ update.at > Len(subordinateStations)
    /\ pc' = "updated"
    /\ UNCHANGED << update, pipelineVars, query, series >>

NextNoaa ==
    CreateReference \/ ReferencesDone \/ CreateSubordinate \/ SubordinatesDone

SpecNoaa == InitNoaa /\ [][NextNoaa]_vars

(***************************************************************************)
(* src/search: calls of near and nearest with an options object.  The      *)
(* distances are those of the module, in metres (50 km = 50000).           *)
(***************************************************************************)
Infinity == 1000000000  \* greater than every distance of the model

TEXT_MAX_RESULTS == 20  \* the default of search(), the text query

DEFAULT_MAX_RESULTS == 10

Null == <<>>

Has(options, key) == key \in DOMAIN options

(* the filter callbacks of the calls, by name *)
Passes(filterName, s) ==
    CASE filterName = "noaa" -> s.id[1] = "noaa"
      [] filterName = "reference" -> s.type = "reference"
      [] filterName = "nothing" -> FALSE
      [] OTHER -> TRUE

(* near with the default maxDistance of the README, 50 km *)
nearCall50km(options) ==
    near(options.latitude,
         IF Has(options, "maxDistance") THEN options.maxDistance ELSE 50000,
         IF Has(options, "maxResults") THEN options.maxResults
         ELSE DEFAULT_MAX_RESULTS,
         [s \in stations |->
            IF Has(options, "filter") THEN Passes(options.filter, s) ELSE TRUE])

(* near({ maxDistance = Infinity, maxResults = 10, filter, ...position }) *)
nearCall(options) ==
    near(options.latitude,
         IF Has(options, "maxDistance") THEN options.maxDistance ELSE Infinity,
         IF Has(options, "maxResults") THEN options.maxResults
         ELSE DEFAULT_MAX_RESULTS,
         [s \in stations |->
            IF Has(options, "filter") THEN Passes(options.filter, s) ELSE TRUE])

(* nearest(options): near({ ...options, maxResults: 1 })[0] ?? null *)
nearest(options) ==
    LET results == nearCall([k \in DOMAIN options \cup {"maxResults"} |->
                               IF k = "maxResults" THEN 1 ELSE options[k]])
    IN  IF results = <<>> THEN Null ELSE results[1]

SearchStation(n, lat) ==
    [ id |-> << IF n % 2 = 1 THEN "noaa" ELSE "ticon", n >>,
      type |-> IF n % 3 = 0 THEN "subordinate" ELSE "reference",
      latitude |-> lat ]

NearbyStations ==
    { SearchStation(1, 0), SearchStation(2, 50), SearchStation(3, 100) }

FarStations ==
    { SearchStation(4, 1000), SearchStation(5, 10000),
      SearchStation(6, 49000), SearchStation(7, 50000),
      SearchStation(8, 51000), SearchStation(9, 60000),
      SearchStation(10, 100000), SearchStation(11, 500000),
      SearchStation(12, 2000000) }

StationSets == { A \cup B : A \in SUBSET NearbyStations, B \in {{}, FarStations} }

OptionalField(key, values) == {Absent} \cup { [k \in {key} |-> v] : v \in values }

SearchOptions ==
    { [latitude |-> lat] @@ r @@ d @@ f :
        lat \in {0, 25, 2100000},
        r \in OptionalField("maxResults", {1, 2, 11}),
        d \in OptionalField("maxDistance", {100, 50000}),
        f \in OptionalField("filter", {"noaa", "reference", "nothing"}) }

InitSearch ==
    /\ PipelineIdle
    /\ stations \in StationSets
    /\ update = <<>>
    /\ series = <<>>
    /\ pc = "search"
    /\ \E options \in SearchOptions : query = [options |-> options, out |-> <<>>]

CallNear ==
    /\ pc = "search"
    /\ query' = [query EXCEPT !.out = [ near |-> nearCall(query.options),
                                        nearest |-> nearest(query.options) ]]
    /\ pc' = "searched"
    /\ UNCHANGED << pipelineVars, update, series >>

NextSearch == CallNear

SpecSearch == InitSearch /\ [][NextSearch]_vars

(***************************************************************************)
(* tools/datum.ts in detail: computeDatumsFromTimeline over a series of    *)
(* samples.  Times are in units of 10 minutes, so that a tidal day of      *)
(* 24 h 50 min is 149; heights are whole millimetres, not negative, and a  *)
(* datum is its value rounded to the millimetre (toFixed(x, 3) of metres). *)
(* A mean is kept as the pair of its numerator and denominator.            *)
(***************************************************************************)
MaxSamples == 8         \* samples of a series

TIDAL_DAY == 149

RECURSIVE SumSeq(_)
SumSeq(arr) == IF arr = <<>> THEN 0 ELSE Head(arr) + SumSeq(Tail(arr))

(* mean(arr): NaN (denominator 0) for an empty array *)
mean(arr) == [num |-> SumSeq(arr), den |-> Len(arr)]

(* toFixed(num, 3): Math.round(num * 1000) / 1000, NaN for NaN *)
toFixed(q) ==
    IF q.den = 0 THEN NaN ELSE (2 * q.num + q.den) \div (2 * q.den)

(* (mhw + mlw) / 2 *)
HalfSum(p, q) ==
    [num |-> p.num * q.den + q.num * p.den, den |-> 2 * p.den * q.den]

MinOf(arr) == CHOOSE x \in { arr[k] : k \in 1..Len(arr) } :
                  \A k \in 1..Len(arr) : x <= arr[k]

MaxOf(arr) == CHOOSE x \in { arr[k] : k \in 1..Len(arr) } :
                  \A k \in 1..Len(arr) : x >= arr[k]

(* the index after the samples before a time: while (idx < times.length    *)
(* && times[idx].getTime() < limit) idx++                                  *)
RECURSIVE SkipBefore(_, _, _)
SkipBefore(times, idx, limit) ==
    IF idx < Len(times) /\ times[idx + 1] < limit
    THEN SkipBefore(times, idx + 1, limit)
    ELSE idx

(* a local high that also takes every sample of a plateau *)
IsLocalHighOrPlateau(heights, j) ==
    /\ heights[j + 1] >= heights[j]
    /\ heights[j + 1] >= heights[j + 2]

(* the test of a local high and of a local low at index j (from 0) *)
IsLocalHigh(heights, j) ==
    /\ heights[j + 1] >= heights[j]
    /\ heights[j + 1] >= heights[j + 2]
    /\ (heights[j + 1] > heights[j] \/ heights[j + 1] > heights[j + 2])

IsLocalLow(heights, j) ==
    /\ ~IsLocalHigh(heights, j)
    /\ heights[j + 1] <= heights[j]
    /\ heights[j + 1] <= heights[j + 2]
    /\ (heights[j + 1] < heights[j] \/ heights[j + 1] < heights[j + 2])

(* the inner for-loop of one tidal day: the highs and the lows among the   *)
(* samples idxStart + 1 .. idxEnd - 2                                      *)
DayExtremes(heights, idxStart, idxEnd) ==
    LET n == IF idxEnd - idxStart >= 3 THEN idxEnd - idxStart - 2 ELSE 0
        inner == [k \in 1..n |-> idxStart + k]
        High(j) == IsLocalHigh(heights, j)
        Low(j) == IsLocalLow(heights, j)
        hs == SelectSeq(inner, High)
        ls == SelectSeq(inner, Low)
    IN  [ highs |-> [k \in 1..Len(hs) |-> heights[hs[k] + 1]],
          lows |-> [k \in 1..Len(ls) |-> heights[ls[k] + 1]] ]

(* the locals of computeDatumsFromTimeline before its while-loop *)
ScanStart(times) ==
    [ dayStartTime |-> times[1], idx |-> 0,
      allHighs |-> <<>>, allLows |-> <<>>,
      higherHighs |-> <<>>, lowerLows |-> <<>> ]

(* while (dayStartTime < lastTime.getTime()) *)
InLoop(times, st) == st.dayStartTime < times[Len(times)]

(* the higher high of a day is the first high found, not the largest *)
FirstOf(arr) == arr[1]

(* highs.sort((a, b) => a - b); highs[highs.length - 1] *)
HigherHigh(highs) == MaxOf(highs)

(* lows.sort((a, b) => a - b); lows[0] *)
LowerLow(lows) == MinOf(lows)

(* one iteration of the while-loop: one tidal day *)
ScanDay(times, heights, tidalDay, st) ==
    LET dayEndTime == st.dayStartTime + tidalDay
        idxEnd == SkipBefore(times, st.idx, dayEndTime)
        day == DayExtremes(heights, st.idx, idxEnd)
    IN  [ dayStartTime |-> dayEndTime,
          idx |-> SkipBefore(times, idxEnd, dayEndTime),
          allHighs |-> st.allHighs \o day.highs,
          allLows |-> st.allLows \o day.lows,
          higherHighs |->
              IF day.highs = <<>> THEN st.higherHighs
              ELSE Append(st.higherHighs, HigherHigh(day.highs)),
          lowerLows |->
              IF day.lows = <<>> THEN st.lowerLows
              ELSE Append(st.lowerLows, LowerLow(day.lows)) ]

(* the while-loop over tidal days *)
RECURSIVE ScanDays(_, _, _, _)
ScanDays(times, heights, tidalDay, st) ==
    IF ~InLoop(times, st) THEN st
    ELSE ScanDays(times, heights, tidalDay,
                  ScanDay(times, heights, tidalDay, st))

(* the return statement of computeDatumsFromTimeline *)
DatumsOf(heights, st) ==
    LET mhw == mean(st.allHighs)
        mlw == mean(st.allLows)
    IN  [ threw |-> FALSE,
          datums |->
            [ MHHW |-> toFixed(mean(st.higherHighs)),
              MHW |-> toFixed(mhw),
              MSL |-> toFixed(mean(heights)),
              MTL |-> toFixed(HalfSum(mhw, mlw)),
              MLW |-> toFixed(mlw),
              MLLW |-> toFixed(mean(st.lowerLows)),
              LAT |-> MinOf(heights) ] ]

(* computeDatumsFromTimeline without its tests of an empty series *)
computeDatumsUnchecked(times, heights, tidalDayHours) ==
    IF Len(times) = 0
    THEN [ threw |-> FALSE,
           datums |-> [ MHHW |-> NaN, MHW |-> NaN, MSL |-> NaN, MTL |-> NaN,
                        MLW |-> NaN, MLLW |-> NaN, LAT |-> NaN ] ]
    ELSE Threw("times and heights must be of equal length", {})

computeDatumsFromTimeline(times, heights, tidalDayHours) ==
    IF Len(times) = 0 \/ Len(times) # Len(heights)
    THEN Threw("times and heights must be non-empty and of equal length", {})
    ELSE DatumsOf(heights,
                  ScanDays(times, heights, tidalDayHours, ScanStart(times)))

(* predictor.getExtremesPrediction: the predictor is an external           *)
(* collaborator.  The curve of an empty constituent list is flat and has   *)
(* no extremes; for other lists the timeline is what the predictor gives.  *)
getExtremesPrediction(constituents, given) ==
    IF constituents = <<>> THEN <<>> ELSE given

(* computeDatums(constituents, epochSpec) over the predictor's timeline *)
computeDatumsFor(constituents, given) ==
    LET timeline == getExtremesPrediction(constituents, given)
        times == [k \in 1..Len(timeline) |-> timeline[k].time]
        heights == [k \in 1..Len(timeline) |-> timeline[k].level]
    IN  computeDatumsFromTimeline(times, heights, TIDAL_DAY)

Levels == {0, 3000, 5000}

HeightSeries == UNION { [1..n -> Levels] : n \in 0..MaxSamples }

(* n sample times, one every step *)
Grid(n, step) == [k \in 1..n |-> (k - 1) * step]

InitDatum ==
    /\ PipelineIdle
    /\ stations = {}
    /\ update = <<>>
    /\ query = <<>>
    /\ pc = "datum"
    /\ \E heights \in HeightSeries, step \in {30, 150} :
         \/ \E constituents \in {<<>>, M2Only} :
              series = [ call |-> "computeDatums",
                         constituents |-> constituents,
                         times |-> Grid(Len(heights), step),
                         heights |-> heights,
                         out |-> <<>> ]
         \/ \E n \in {Len(heights), Len(heights) + 1} :
              series = [ call |-> "computeDatumsFromTimeline",
                         constituents |-> <<>>,
                         times |-> Grid(n, step),
                         heights |-> heights,
                         out |-> <<>> ]

ComputeDatums ==
    /\ pc = "datum"
    /\ series.call = "computeDatums"
    /\ series' =
         [series EXCEPT !.out =
            computeDatumsFor(series.constituents,
                             [k \in 1..Len(series.heights) |->
                                [time |-> series.times[k],
                                 level |-> series.heights[k]]])]
    /\ pc' = "computed"
    /\ UNCHANGED << pipelineVars, update, query >>

ComputeFromTimeline ==
    /\ pc = "datum"
    /\ series.call = "computeDatumsFromTimeline"
    /\ series' =
         [series EXCEPT !.out =
            computeDatumsFromTimeline(series.times, series.heights, TIDAL_DAY)]
    /\ pc' = "computed"
    /\ UNCHANGED << pipelineVars, update, query >>

NextDatum == ComputeDatums \/ ComputeFromTimeline

SpecDatum == InitDatum /\ [][NextDatum]_vars

(***************************************************************************)
(* tools/datum.ts: calls of resolveEpoch.  Dates are whole years; a field  *)
(* the caller omits is absent from the EpochSpec.                          *)
(***************************************************************************)
EpochStarts == 1990..2012

EpochEnds == {2010, 2020, 2026}

Clocks == {2026, 2030}

EpochSpecs ==
    { s @@ e : s \in {Absent} \cup { [start |-> y] : y \in EpochStarts },
               e \in {Absent} \cup { [end |-> y] : y \in EpochEnds } }

InitEpoch ==
    /\ PipelineIdle
    /\ stations = {}
    /\ update = <<>>
    /\ query = <<>>
    /\ pc = "epoch"
    /\ \E epochSpec \in EpochSpecs, now \in Clocks :
         series = [ call |-> "resolveEpoch", epochSpec |-> epochSpec,
                    now |-> now, out |-> <<>> ]

ResolveEpoch ==
    /\ pc = "epoch"
    /\ series' = [series EXCEPT
                   !.out = resolveEpoch(series.epochSpec, series.now)]
    /\ pc' = "resolved"
    /\ UNCHANGED << pipelineVars, update, query >>

NextEpoch == ResolveEpoch

SpecEpoch == InitEpoch /\ [][NextEpoch]_vars

(***************************************************************************)
(* tools/datum.ts: computeDatumsFromTimeline, one step per iteration of    *)
(* its while-loop.  series.st holds the locals of the function, series.day *)
(* counts the iterations made.                                             *)
(***************************************************************************)
MaxDays == 6            \* iterations of the while-loop that are followed

(* the sampling steps and the tidalDayHours options a caller passes *)
ScanOptions == { <<30, TIDAL_DAY>>, <<50, 90>>, <<30, 0>> }

InitTimeline ==
    /\ PipelineIdle
    /\ stations = {}
    /\ update = <<>>
    /\ query = <<>>
    /\ pc = "timeline"
    /\ \E heights \in HeightSeries, opt \in ScanOptions :
         series = [ call |-> "computeDatumsFromTimeline",
                    times |-> Grid(Len(heights), opt[1]),
                    heights |-> heights,
                    tidalDayHours |-> opt[2],
                    st |-> <<>>,
                    day |-> 0,
                    out |-> <<>> ]

(* the tests at the head of the function, and the locals of the loop *)
EnterTimeline ==
    /\ pc = "timeline"
    /\ IF Len(series.times) = 0 \/ Len(series.times) # Len(series.heights)
       THEN /\ series' = [series EXCEPT !.out =
                  computeDatumsFromTimeline(series.times, series.heights,
                                            series.tidalDayHours)]
            /\ pc' = "scanned"
       ELSE /\ series' = [series EXCEPT !.st = ScanStart(series.times)]
            /\ pc' = "scan"
    /\ UNCHANGED << pipelineVars, update, query >>

(* one iteration of the while-loop *)
ScanTidalDay ==
    /\ pc = "scan"
    /\ InLoop(series.times, series.st)
    /\ series.day < MaxDays
    /\ series' = [series EXCEPT
                    !.st = ScanDay(series.times, series.heights,
                                   series.tidalDayHours, series.st),
                    !.day = series.day + 1]
    /\ UNCHANGED << pc, pipelineVars, update, query >>

(* the loop is left: the datums are returned *)
ReturnDatums ==
    /\ pc = "scan"
    /\ ~InLoop(series.times, series.st)
    /\ series' = [series EXCEPT !.out = DatumsOf(series.heights, series.st)]
    /\ pc' = "scanned"
    /\ UNCHANGED << pipelineVars, update, query >>

NextTimeline == EnterTimeline \/ ScanTidalDay \/ ReturnDatums

SpecTimeline == InitTimeline /\ [][NextTimeline]_vars

(***************************************************************************)
(* Properties                                                              *)
(***************************************************************************)
Within(c, d, limit) == Leq(distance(c.latitude, d.latitude), limit)

AfterFilter == pc \in {"delete", "save", "done"}

(* the group Step 3 forms for the candidate it visits, in batch order *)
VisitedGroup == <<candidates[i]>> \o Nearby(candidates[i], removed, processed)

FormsGroup ==
    /\ pc = "step3"
    /\ candidateId(candidates[i]) \notin removed
    /\ candidateId(candidates[i]) \notin processed
    /\ Len(Nearby(candidates[i], removed, processed)) > 0

(* C1: for every group {c} + neighbours that Step 3 forms, exactly one     *)
(* member is kept, the one compareStationPriority ranks before every other *)
(* member; every other member is added to removed; a kept member is never  *)
(* removed later and is in the surviving set.  Of two un-flagged members,  *)
(* the one with the longer epoch is not the one discarded in its favour.   *)
C1_GroupStep ==
    /\ FormsGroup =>
         LET g == VisitedGroup
             G == Ids(g)
         IN  /\ \E k \in 1..Len(g) :
                  /\ G \ removed' = {candidateId(g[k])}
                  /\ \A m \in 1..Len(g) :
                       m # k => compareStationPriority(g[k], g[m]) < 0
             /\ \A a, b \in 1..Len(g) :
                  ( /\ ~hasQualityIssues(g[a]) /\ ~hasQualityIssues(g[b])
                    /\ epochYears(g[a]) > epochYears(g[b]) )
                  => candidateId(g[b]) \in removed'
             /\ removed' \ removed \subseteq G
    /\ \A id \in processed \ removed : id \notin removed'
    /\ pc' = "delete" =>
         \A id \in processed' \ removed' : id \in Ids(surviving')

(* C1: every step of the filter keeps the top-ranked member of the group   *)
(* it forms and discards every other member.                               *)
C1_KeepsTopRanked == [][C1_GroupStep]_vars

(* a 20-year and a 5-year un-flagged candidate 50 m apart went through     *)
(* Step 3: the 20-year one survives, the other is discarded                *)
C1_Witness ==
    /\ pc = "delete"
    /\ duplicateCount > 0
    /\ \E a, b \in 1..Len(candidates) :
         /\ Within(candidates[a], candidates[b], MIN_DISTANCE_TICON)
         /\ ~hasQualityIssues(candidates[a])
         /\ ~hasQualityIssues(candidates[b])
         /\ epochYears(candidates[a]) = 20
         /\ epochYears(candidates[b]) = 5
         /\ a > b
         /\ candidateId(candidates[a]) \in Ids(surviving)
         /\ candidateId(candidates[b]) \in removed
         /\ candidateId(candidates[b]) \in processed

NearNoaaStation(c) ==
    \E s \in stations :
        IsNoaaStation(s) /\ Within(c, s, MIN_DISTANCE_TO_NOAA)

(* C2: once Step 1b has visited a candidate that lies within 100 m         *)
(* (inclusive) of a station whose id starts with "noaa/", the candidate is *)
(* in removed, whatever its flag, epoch and source; Step 1b counts exactly *)
(* those that Step 1a had not removed; no surviving candidate is within    *)
(* 100 m of a NOAA station.                                                *)
C2_NearNoaaDiscarded ==
    /\ pc = "step1b" =>
         \A k \in 1..(i - 1) :
             NearNoaaStation(candidates[k])
                 => candidateId(candidates[k]) \in removed
    /\ pc \in {"step2", "step3", "summary", "delete", "save", "done"} =>
         /\ \A k \in 1..Len(candidates) :
                NearNoaaStation(candidates[k])
                    => candidateId(candidates[k]) \in removed
         /\ nearNoaaCount =
              Cardinality({ k \in 1..Len(candidates) :
                              /\ NearNoaaStation(candidates[k])
                              /\ ~IsNoaaSourced(candidates[k]) })
    /\ AfterFilter =>
         \A k \in 1..Len(surviving) : ~NearNoaaStation(surviving[k])

(* an un-flagged 20-year candidate of a top-ranked source, exactly 100 m    *)
(* from the NOAA station, has been discarded by Step 1b                    *)
C2_Witness ==
    /\ pc = "step2"
    /\ nearNoaaCount > 0
    /\ \E k \in 1..Len(candidates) :
         /\ distance(candidates[k].latitude, Noaa200.latitude)
              = MIN_DISTANCE_TO_NOAA
         /\ ~hasQualityIssues(candidates[k])
         /\ epochYears(candidates[k]) = 20
         /\ ~IsNoaaSourced(candidates[k])
         /\ candidateId(candidates[k]) \in removed

(* C3: after the filter, every two distinct surviving candidates are more  *)
(* than 50 m apart.                                                        *)
C3_MinimumDistance ==
    AfterFilter =>
        \A a, b \in 1..Len(surviving) :
            a # b => Gt(distance(surviving[a].latitude, surviving[b].latitude),
                        MIN_DISTANCE_TICON)

(* C4: compareStationPriority is a three-way comparator of a strict weak   *)
(* ordering: compare(a,a) = 0, compare(a,b) < 0 implies compare(b,a) > 0,  *)
(* compare(a,b) < 0 and compare(b,c) < 0 imply compare(a,c) < 0, ties are  *)
(* transitive, and it is 0 only for records of the same source id.         *)
C4_StrictWeakOrder ==
    pc = "compared" =>
        /\ cmp.out.aa = 0
        /\ cmp.out.ab < 0 => cmp.out.ba > 0
        /\ cmp.out.ab > 0 => cmp.out.ba < 0
        /\ (cmp.out.ab < 0 /\ cmp.out.bc < 0) => cmp.out.ac < 0
        /\ (cmp.out.ab = 0 /\ cmp.out.bc = 0) => cmp.out.ac = 0
        /\ cmp.out.ab = 0 => cmp.args[1].source.id = cmp.args[2].source.id

(* a chain a < b < c decided by different rules: a before b by rule 1,     *)
(* b before c by the tie-break of rule 4                                   *)
C4_Witness ==
    /\ pc = "compared"
    /\ cmp.out.ab < 0
    /\ cmp.out.bc < 0
    /\ cmp.out.ac < 0
    /\ ~hasQualityIssues(cmp.args[1])
    /\ hasQualityIssues(cmp.args[2])
    /\ hasQualityIssues(cmp.args[3])
    /\ epochYears(cmp.args[2]) = epochYears(cmp.args[3])
    /\ getSourcePriority(cmp.args[2].source.id)
         = getSourcePriority(cmp.args[3].source.id)
    /\ cmp.args[2].source.id # cmp.args[3].source.id

(* C5: a second run of the four filter steps on the same batch and the     *)
(* same canonical NOAA set, started from the files (and the rebuilt        *)
(* package) the first run left, yields the discarded set and the surviving *)
(* set of the first run.                                                   *)
C5_SameResultOnRerun ==
    (run > 1 /\ AfterFilter) =>
        /\ prev = <<removed>>
        /\ LET KeptBefore(c) == candidateId(c) \notin prev[1]
           IN  surviving = SelectSeq(candidates, KeptBefore)

(* a second run has ended, after a first run that discarded, deleted and   *)
(* saved, with the package rebuilt from the files it left                  *)
C5_Witness ==
    /\ run = 2
    /\ pc = "done"
    /\ removed # {}
    /\ Len(surviving) > 0
    /\ \E s \in stations : ~IsNoaaStation(s)
    /\ stations # BuildStations({Noaa200}, InitialFiles("same", rows))
    /\ stations # BuildStations({Noaa200}, InitialFiles("changed", rows))

PhaseRank(p) ==
    CASE p = "convert" -> 0
      [] p = "step1a" -> 1
      [] p = "step1b" -> 2
      [] p = "step2" -> 3
      [] p = "step3" -> 4
      [] p = "summary" -> 5
      [] OTHER -> 6

InFilterStep == pc \in {"step1a", "step1b", "step2", "step3"}

(* C6: the steps run in the order 1a, 1b, 2, 3; removed only grows; a step *)
(* that visits a candidate already removed changes nothing; each step      *)
(* removes only for its own reason, and the reason of Step 2 and of Step 3 *)
(* is a candidate that is not removed: the un-flagged neighbour of Step 2, *)
(* the visited candidate and the kept member of Step 3.                    *)
C6_Step ==
    /\ removed \subseteq removed'
    /\ PhaseRank(pc') \in {PhaseRank(pc), PhaseRank(pc) + 1}
    /\ (InFilterStep /\ candidateId(candidates[i]) \in removed) =>
           /\ removed' = removed
           /\ processed' = processed
           /\ filterCounters' = filterCounters
    /\ pc = "step1a" =>
           \A k \in 1..Len(candidates) :
               candidateId(candidates[k]) \in removed' \ removed
                   => k = i /\ IsNoaaSourced(candidates[k])
    /\ pc = "step1b" =>
           \A k \in 1..Len(candidates) :
               candidateId(candidates[k]) \in removed' \ removed
                   => k = i /\ NearNoaaStation(candidates[k])
    /\ pc = "step2" =>
           \A k \in 1..Len(candidates) :
               candidateId(candidates[k]) \in removed' \ removed
                   => /\ k = i
                      /\ hasQualityIssues(candidates[k])
                      /\ \E n \in 1..Len(candidates) :
                           /\ n # k
                           /\ candidateId(candidates[n]) \notin removed
                           /\ ~hasQualityIssues(candidates[n])
                           /\ Within(candidates[k], candidates[n],
                                     QUALITY_DISTANCE)
    /\ pc = "step3" =>
           \A k \in 1..Len(candidates) :
               candidateId(candidates[k]) \in removed' \ removed
                   => /\ candidateId(candidates[i]) \notin removed
                      /\ (k = i \/ Within(candidates[k], candidates[i],
                                          MIN_DISTANCE_TICON))
                      /\ \E n \in 1..Len(candidates) :
                           /\ candidateId(candidates[n]) \notin removed'
                           /\ (n = i \/ Within(candidates[n], candidates[i],
                                               MIN_DISTANCE_TICON))
                           /\ compareStationPriority(candidates[n],
                                                     candidates[k]) < 0

(* C6: every step of the filter respects the order of the steps, the       *)
(* growth of removed and the exclusion of removed candidates.              *)
C6_PhasesInOrder == [][C6_Step]_vars

(* a flagged candidate survives the filter although an un-flagged          *)
(* candidate that Step 1a removed lies within 100 m of it, and an          *)
(* un-flagged candidate survives beside a better one that Step 1b removed  *)
C6_Witness ==
    /\ pc = "delete"
    /\ \E a, b \in 1..Len(candidates) :
         /\ IsNoaaSourced(candidates[a])
         /\ ~hasQualityIssues(candidates[a])
         /\ hasQualityIssues(candidates[b])
         /\ Within(candidates[a], candidates[b], QUALITY_DISTANCE)
         /\ candidateId(candidates[b]) \in Ids(surviving)
    /\ \E a, b \in 1..Len(candidates) :
         /\ NearNoaaStation(candidates[a])
         /\ ~IsNoaaSourced(candidates[a])
         /\ Within(candidates[a], candidates[b], MIN_DISTANCE_TICON)
         /\ compareStationPriority(candidates[a], candidates[b]) < 0
         /\ candidateId(candidates[b]) \in Ids(surviving)

(* a candidate the run has promoted: not discarded, no error, persisted *)
Promoted(c) ==
    /\ candidateId(c) \notin removed
    /\ candidateId(c) \notin errorLog
    /\ candidateId(c) \in DOMAIN files
    /\ files[candidateId(c)].harmonic_constituents = c.harmonic_constituents

(* C7, as claimed: at the end of the run every candidate is promoted or    *)
(* discarded, and no persisted record carries the id of a discarded        *)
(* candidate.                                                              *)
C7_PromotedOrDiscarded ==
    pc = "done" =>
        /\ \A k \in 1..Len(candidates) :
               candidateId(candidates[k]) \in removed \/ Promoted(candidates[k])
        /\ removed \cap DOMAIN files = {}

(* C7, amended: at the end of the run every candidate is exactly one of    *)
(* discarded, promoted, or reported as an error; from the deletion on, no  *)
(* persisted record carries the id of a discarded candidate.               *)
C7_PromotedDiscardedOrError ==
    /\ pc \in {"save", "done"} => removed \cap DOMAIN files = {}
    /\ pc = "done" =>
         \A k \in 1..Len(candidates) :
             LET id == candidateId(candidates[k])
             IN  /\ id \in removed \/ id \in errorLog \/ Promoted(candidates[k])
                 /\ ~(id \in removed /\ id \in errorLog)

(* a run that deleted the persisted record of a discarded candidate,       *)
(* reported an error for one survivor and saved another                    *)
C7_Witness ==
    /\ pc = "done"
    /\ deleted > 0
    /\ errors > 0
    /\ saved > 0
    /\ removed \cap DOMAIN files = {}

(* C8: the datums of every persisted record are those of the record's own  *)
(* harmonic constituents: persisted datums are reused only for unchanged   *)
(* constituents, and recomputed otherwise.                                 *)
C8_DatumsOfOwnConstituents ==
    \A id \in DOMAIN files :
        files[id].datums.of = files[id].harmonic_constituents

(* C9: each iteration of Phase 3 ends in one save or one reported error;   *)
(* at the end saved + errors is the number of surviving candidates, the    *)
(* errors are those of the reported candidates, and every other surviving  *)
(* candidate has been saved.                                               *)
C9_ErrorsAreLocal ==
    /\ pc = "save" => saved + errors = i - 1
    /\ pc = "done" =>
         /\ saved + errors = Len(surviving)
         /\ errors = Cardinality(errorLog)
         /\ errorLog \subseteq Ids(surviving)
         /\ \A k \in 1..Len(surviving) :
                candidateId(surviving[k]) \notin errorLog
                    => Promoted(surviving[k])

(* an error for one surviving candidate, and a later one saved *)
C9_Witness ==
    /\ pc = "done"
    /\ \E a, b \in 1..Len(surviving) :
         /\ a < b
         /\ candidateId(surviving[a]) \in errorLog
         /\ Promoted(surviving[b])

HasInvalidGeolocation ==
    \E k \in 1..Len(rows) : IsNaN(ParseFloat(rows[k].lat))

(* C10: a batch with a candidate that lacks a valid latitude is aborted:   *)
(* nothing is discarded, no persisted record is deleted, nothing is saved. *)
C10_InvalidGeolocationAborts ==
    HasInvalidGeolocation =>
        /\ removed = {}
        /\ deleted = 0
        /\ saved = 0

(* the subordinates of the fetched list whose refStationId is not the id   *)
(* of a reference station of the list                                      *)
UnresolvedSubordinates ==
    { k \in 1..Len(update.stations) :
        /\ update.stations[k].type = "S"
        /\ ~\E r \in 1..Len(update.stations) :
              /\ update.stations[r].type = "R"
              /\ update.stations[r].id
                   = update.stations[k].tidepredoffsets.refStationId }

(* C11: every subordinate station the NOAA update has written refers to a  *)
(* written station of type reference; a subordinate whose reference id is  *)
(* unknown is never written, and a run over a list that holds one, unless  *)
(* the NOAA API or the timezone lookup failed first, ends in failure with  *)
(* the reference-not-found error that names it.                            *)
C11_SubordinatesResolve ==
    /\ \A p \in DOMAIN update.written :
         update.written[p].type = "subordinate" =>
             \E q \in DOMAIN update.written :
                 /\ update.written[q].type = "reference"
                 /\ update.written[p].offsets.reference
                      = update.written[q].source.id
    /\ \A k \in UnresolvedSubordinates :
         \A p \in DOMAIN update.written :
             update.written[p].source.id # update.stations[k].id
    /\ ( /\ UnresolvedSubordinates # {}
         /\ \/ pc = "updated"
            \/ pc = "failed" /\ update.error.kind \notin {"NoData", "Timezone"} )
       =>
         /\ pc = "failed"
         /\ update.error.kind = "ReferenceNotFound"
         /\ \E k \in UnresolvedSubordinates :
              update.stations[k].id \in update.error.names

(* a station that a call with these options may return *)
Qualifies(s, options) ==
    /\ Has(options, "filter") => Passes(options.filter, s)
    /\ Has(options, "maxDistance") =>
           Leq(distance(options.latitude, s.latitude), options.maxDistance)

(* C12: near returns at most maxResults pairs [station, distance]; every   *)
(* returned station is a station of the set that passes the filter and     *)
(* lies within maxDistance of the query point, paired with its distance;   *)
(* the distances are non-decreasing; nearest returns null when no station  *)
(* qualifies and otherwise a qualifying station at the least distance,     *)
(* the first pair of near.                                                 *)
C12_NearContract ==
    pc = "searched" =>
        LET o == query.options
            out == query.out.near
            one == query.out.nearest
        IN  /\ Has(o, "maxResults") => Len(out) <= o.maxResults
            /\ \A k \in 1..Len(out) :
                 /\ out[k][1] \in stations
                 /\ Qualifies(out[k][1], o)
                 /\ out[k][2] = distance(o.latitude, out[k][1].latitude)
            /\ \A k \in 1..(Len(out) - 1) : out[k][2] <= out[k + 1][2]
            /\ \A k, m \in 1..Len(out) : k # m => out[k][1] # out[m][1]
            /\ IF \A s \in stations : ~Qualifies(s, o)
               THEN one = Null /\ out = <<>>
               ELSE /\ one # Null
                    /\ one[1] \in stations
                    /\ Qualifies(one[1], o)
                    /\ one[2] = distance(o.latitude, one[1].latitude)
                    /\ \A s \in stations :
                         Qualifies(s, o) =>
                             one[2] <= distance(o.latitude, s.latitude)
                    /\ out # <<>> /\ out[1][2] = one[2]

(* a call with maxResults = 2, a filter and a maxDistance that each        *)
(* exclude a station, more qualifying stations than maxResults, and two    *)
(* returned stations at the same distance                                  *)
C12_Witness ==
    /\ pc = "searched"
    /\ Has(query.options, "maxResults") /\ query.options.maxResults = 2
    /\ Has(query.options, "filter")
    /\ Has(query.options, "maxDistance")
    /\ Len(query.out.near) = 2
    /\ query.out.near[1][2] = query.out.near[2][2]
    /\ Cardinality({ s \in stations : Qualifies(s, query.options) }) > 2
    /\ \E s \in stations : ~Passes(query.options.filter, s)
    /\ \E s \in stations :
         /\ Passes(query.options.filter, s)
         /\ ~Qualifies(s, query.options)

Min(a, b) == IF a <= b THEN a ELSE b

Returned(out) == { out[k][1] : k \in 1..Len(out) }

DatumNames == {"MHHW", "MHW", "MSL", "MTL", "MLW", "MLLW", "LAT"}

C16_DatumsFinite ==
    (pc = "computed" /\ ~series.out.threw) =>
        \A name \in DatumNames : ~IsNaN(series.out.datums[name])

(* C17: when all the datums of a series are defined, MHHW >= MHW >= MTL    *)
(* >= MLW >= MLLW and LAT <= MLLW.                                         *)
C17_DatumsOrdered ==
    ( /\ pc = "computed"
      /\ ~series.out.threw
      /\ \A name \in DatumNames : ~IsNaN(series.out.datums[name]) ) =>
        LET d == series.out.datums
        IN  /\ d.MHHW >= d.MHW
            /\ d.MHW >= d.MTL
            /\ d.MTL >= d.MLW
            /\ d.MLW >= d.MLLW
            /\ d.LAT <= d.MLLW

Sign(x) == IF x < 0 THEN -1 ELSE IF x > 0 THEN 1 ELSE 0

(* the three numeric keys of a station record, in the order of the rules:  *)
(* flagged (0 or 1), years of observation negated, rank of the source      *)
PriorityKey(s) ==
    << IF hasQualityIssues(s) THEN 1 ELSE 0,
       0 - epochYears(s),
       getSourcePriority(s.source.id) >>

(* the sign of the lexicographic comparison of two keys, the source ids    *)
(* deciding between equal keys                                             *)
KeyOrder(a, b) ==
    LET ka == PriorityKey(a)
        kb == PriorityKey(b)
        differ == { k \in 1..3 : ka[k] # kb[k] }
    IN  IF differ = {}
        THEN Sign(localeCompare(a.source.id, b.source.id))
        ELSE LET first == CHOOSE k \in differ : \A m \in differ : k <= m
             IN  IF ka[first] < kb[first] THEN -1 ELSE 1

(* C18: compareStationPriority(a, b) has the sign of the lexicographic     *)
(* comparison of the keys (flagged, years descending, rank ascending,      *)
(* source id ascending): an un-flagged record precedes a flagged one       *)
(* whatever their epochs and ranks, of two equally flagged records the one *)
(* with the longer epoch precedes whatever their ranks, and a suffix that  *)
(* is not in the rank table has rank 50, strictly between the best known   *)
(* rank, 1, and the worst, 99.                                             *)
C18_LexicographicKeys ==
    pc = "compared" =>
        LET a == cmp.args[1]
            b == cmp.args[2]
        IN  /\ Sign(cmp.out.ab) = KeyOrder(a, b)
            /\ Sign(cmp.out.ba) = KeyOrder(b, a)
            /\ (~hasQualityIssues(a) /\ hasQualityIssues(b)) => cmp.out.ab < 0
            /\ ( /\ hasQualityIssues(a) = hasQualityIssues(b)
                 /\ epochYears(a) > epochYears(b) ) => cmp.out.ab < 0
            /\ getSourceSuffix(a.source.id) \notin KnownSuffixes =>
                   getSourcePriority(a.source.id) = 50
            /\ \A suffix \in KnownSuffixes :
                   SOURCE_PRIORITY(suffix) \in 1..99
            /\ \E best \in KnownSuffixes :
                   /\ SOURCE_PRIORITY(best) = 1
                   /\ SOURCE_PRIORITY(best) < DEFAULT_PRIORITY
            /\ \E worst \in KnownSuffixes :
                   /\ SOURCE_PRIORITY(worst) = 99
                   /\ DEFAULT_PRIORITY < SOURCE_PRIORITY(worst)

(* an un-flagged record of 5 years from a low-ranked source has been       *)
(* compared with a flagged record of 20 years from a better-ranked source  *)
(* and precedes it; the third record is of a source without a rank         *)
C18_Witness ==
    /\ pc = "compared"
    /\ ~hasQualityIssues(cmp.args[1])
    /\ hasQualityIssues(cmp.args[2])
    /\ epochYears(cmp.args[1]) = 5
    /\ epochYears(cmp.args[2]) = 20
    /\ getSourcePriority(cmp.args[1].source.id)
         > getSourcePriority(cmp.args[2].source.id)
    /\ cmp.out.ab < 0
    /\ getSourceSuffix(cmp.args[3].source.id) \notin KnownSuffixes
    /\ cmp.out.bc < 0

(* the last '-'-separated segment of the candidate's source id is "noaa" *)
LastSegmentIsNoaa(c) == c.source.id[Len(c.source.id)] = "noaa"

NoaaSegmentIds(n) ==
    { candidateId(candidates[k]) :
        k \in { m \in 1..n : LastSegmentIsNoaa(candidates[m]) } }

(* C19: while Step 1a runs, removed holds exactly the visited candidates   *)
(* whose source id ends in the segment "noaa"; when it has run, removed    *)
(* holds exactly the candidates of the batch with that segment, whatever   *)
(* their location, flag and epoch, and noaaSourceCount is their number.    *)
C19_ProvenanceExclusion ==
    /\ pc = "step1a" =>
         /\ removed = NoaaSegmentIds(i - 1)
         /\ noaaSourceCount = Cardinality(removed)
    /\ (pc = "step1b" /\ i = 1) =>
         /\ removed = NoaaSegmentIds(Len(candidates))
         /\ noaaSourceCount = Cardinality(removed)
    /\ pc \in {"step1b", "step2", "step3", "summary", "delete"} =>
         /\ NoaaSegmentIds(Len(candidates)) \subseteq removed
         /\ noaaSourceCount = Cardinality(NoaaSegmentIds(Len(candidates)))

(* Step 1a has run: it removed an un-flagged 20-year candidate with the    *)
(* segment "noaa" that is not near any NOAA station, and kept a candidate  *)
(* of another source at the same place                                     *)
C19_Witness ==
    /\ pc = "step1b"
    /\ i = 1
    /\ \E a, b \in 1..Len(candidates) :
         /\ LastSegmentIsNoaa(candidates[a])
         /\ ~hasQualityIssues(candidates[a])
         /\ epochYears(candidates[a]) = 20
         /\ ~NearNoaaStation(candidates[a])
         /\ candidateId(candidates[a]) \in removed
         /\ ~LastSegmentIsNoaa(candidates[b])
         /\ candidates[b].latitude = candidates[a].latitude
         /\ candidateId(candidates[b]) \notin removed

(* the candidates that Steps 1a and 1b discard *)
DiscardedBeforeQuality ==
    { candidateId(candidates[k]) :
        k \in { m \in 1..Len(candidates) :
                  \/ LastSegmentIsNoaa(candidates[m])
                  \/ NearNoaaStation(candidates[m]) } }

(* among the first n candidates, those that are flagged, were not          *)
(* discarded before Step 2, and have an un-flagged candidate that was not  *)
(* discarded before Step 2 within 100 m                                    *)
QualitySuperseded(n) ==
    { candidateId(candidates[k]) :
        k \in { m \in 1..n :
                  /\ candidateId(candidates[m]) \notin DiscardedBeforeQuality
                  /\ hasQualityIssues(candidates[m])
                  /\ \E o \in 1..Len(candidates) :
                       /\ o # m
                       /\ candidateId(candidates[o])
                            \notin DiscardedBeforeQuality
                       /\ ~hasQualityIssues(candidates[o])
                       /\ Within(candidates[m], candidates[o], 100) } }

(* C20: Step 2 discards exactly the flagged candidates that Steps 1a and   *)
(* 1b kept and that have, within 100 m, an un-flagged candidate that those *)
(* steps kept, whatever that neighbour's epoch and rank; it discards no    *)
(* un-flagged candidate; the set it discards is a function of the batch    *)
(* as a set, not of the order of the visits.                               *)
C20_QualitySupersession ==
    /\ pc = "step2" =>
         /\ removed = DiscardedBeforeQuality \cup QualitySuperseded(i - 1)
         /\ qualityRemovals = Cardinality(QualitySuperseded(i - 1))
    /\ (pc = "step3" /\ i = 1) =>
         /\ removed
              = DiscardedBeforeQuality \cup QualitySuperseded(Len(candidates))
         /\ qualityRemovals
              = Cardinality(QualitySuperseded(Len(candidates)))
    /\ pc \in {"step3", "summary", "delete"} =>
         qualityRemovals = Cardinality(QualitySuperseded(Len(candidates)))

(* Step 2 has run: it discarded a flagged 20-year candidate whose only     *)
(* un-flagged neighbour, exactly 100 m away, has a 5-year epoch, and kept  *)
(* that neighbour; a third candidate had been discarded before Step 2      *)
C20_Witness ==
    /\ pc = "step3"
    /\ i = 1
    /\ \E a, b, c \in 1..Len(candidates) :
         /\ hasQualityIssues(candidates[a])
         /\ epochYears(candidates[a]) = 20
         /\ ~hasQualityIssues(candidates[b])
         /\ epochYears(candidates[b]) = 5
         /\ distance(candidates[a].latitude, candidates[b].latitude) = 100
         /\ candidateId(candidates[a]) \in QualitySuperseded(Len(candidates))
         /\ candidateId(candidates[a]) \in removed
         /\ candidateId(candidates[b]) \notin removed
         /\ c # a /\ c # b
         /\ candidateId(candidates[c]) \in DiscardedBeforeQuality

(* the candidates one hop from the candidate Step 3 visits: neither        *)
(* discarded nor finalized, at most 50 m from it                           *)
SingleHopGroup ==
    { candidateId(candidates[i]) } \cup
    { candidateId(candidates[k]) : k \in
        { k \in 1..Len(candidates) :
            /\ candidateId(candidates[k]) \notin removed \cup processed
            /\ Within(candidates[i], candidates[k], MIN_DISTANCE_TICON) } }

C21_Step ==
    pc = "step3" =>
      /\ (pc' = "step3" /\ i' = i + 1) \/ (pc' = "summary" /\ i = Len(candidates))
      /\ IF candidateId(candidates[i]) \in removed \cup processed
         THEN removed' = removed /\ processed' = processed
         ELSE /\ processed' = processed \cup SingleHopGroup
              /\ removed \subseteq removed'
              /\ removed' \ removed \subseteq SingleHopGroup
              /\ Cardinality(removed' \ removed)
                   = Cardinality(SingleHopGroup) - 1
      /\ \A id \in processed : id \in removed' <=> id \in removed

(* C21: Step 3 visits the candidates in batch order; the group of a        *)
(* visited candidate c is c plus every candidate, neither discarded nor    *)
(* finalized, directly within 50 m of c (a candidate within 50 m of a      *)
(* member but not of c stays out); every member of the group is finalized, *)
(* all but one are discarded; a finalized candidate is skipped when        *)
(* visited, joins no later group and never changes status.                 *)
C21_SingleHopGroups == [][C21_Step]_vars

(* a chain 0 m, 50 m, 100 m reached Step 3 whole: the visit of the first   *)
(* finalized the first two and left the third, 50 m from the second, out   *)
C21_Witness ==
    /\ pc = "step3"
    /\ i = 3
    /\ Len(candidates) >= 3
    /\ candidates[1].latitude = 0
    /\ candidates[2].latitude = 50
    /\ candidates[3].latitude = 100
    /\ processed = { candidateId(candidates[1]), candidateId(candidates[2]) }
    /\ duplicateCount = 1
    /\ candidateId(candidates[3]) \notin removed

(* C22: resolveEpoch returns the given end unchanged (the clock's time     *)
(* when end is omitted); a start omitted is 19 years before that end; a    *)
(* window longer than 19 years has its start moved to exactly 19 years     *)
(* before the end and lengthYears = 19; a window of 19 years or less is    *)
(* returned as given; the returned window never exceeds 19 years.          *)
C22_EpochWindow ==
    (pc = "resolved" /\ series.call = "resolveEpoch") =>
      LET given == series.epochSpec
          out == series.out
          end == IF "end" \in DOMAIN given THEN given.end ELSE series.now
          start == IF "start" \in DOMAIN given THEN given.start ELSE end - 19
      IN  /\ out.end = end
          /\ out.end - out.start <= 19
          /\ out.lengthYears = out.end - out.start
          /\ end - start > 19 => out.start = end - 19 /\ out.lengthYears = 19
          /\ end - start <= 19 => out.start = start

(* a 30-year epoch 1990-2020 was resolved to 2001-2020 *)
C22_Witness ==
    /\ pc = "resolved"
    /\ series.call = "resolveEpoch"
    /\ series.epochSpec = [start |-> 1990, end |-> 2020]
    /\ series.out = [start |-> 2001, end |-> 2020, lengthYears |-> 19]

(* the heights of the samples S (indices from 1), in the order of the series *)
HeightsAt(heights, S) ==
    LET In(k) == k \in S
        picked == SelectSeq([k \in 1..Len(heights) |-> k], In)
    IN  [k \in 1..Len(picked) |-> heights[picked[k]]]

(* the samples of the half-open window [from, from + length) *)
WindowSamples(times, from, length) ==
    { k \in 1..Len(times) : from <= times[k] /\ times[k] < from + length }

C23_Step ==
    (pc = "scan" /\ pc' = "scan") =>
      LET st == series.st
          heights == series.heights
          window == WindowSamples(series.times, st.dayStartTime,
                                  series.tidalDayHours)
          interior ==
              IF Cardinality(window) >= 3
              THEN { k \in window : k - 1 \in window /\ k + 1 \in window }
              ELSE {}
          highs == { k \in interior :
                       /\ heights[k] >= heights[k - 1]
                       /\ heights[k] >= heights[k + 1]
                       /\ (heights[k] > heights[k - 1]
                             \/ heights[k] > heights[k + 1]) }
          lows == { k \in interior :
                       /\ heights[k] <= heights[k - 1]
                       /\ heights[k] <= heights[k + 1]
                       /\ (heights[k] < heights[k - 1]
                             \/ heights[k] < heights[k + 1]) }
      IN  /\ series.day = 0 => st.dayStartTime = series.times[1]
          /\ series'.st.dayStartTime = st.dayStartTime + series.tidalDayHours
          /\ window = (st.idx + 1)..(series'.st.idx)
          /\ series'.st.allHighs = st.allHighs \o HeightsAt(heights, highs)
          /\ series'.st.allLows = st.allLows \o HeightsAt(heights, lows)
          /\ highs \cap lows = {}
          /\ Cardinality(window) = 2 =>
               /\ series'.st.allHighs = st.allHighs
               /\ series'.st.allLows = st.allLows
          /\ \A k \in interior :
               (heights[k - 1] = heights[k] /\ heights[k] = heights[k + 1])
                   => k \notin highs \cup lows

(* C23: the series is cut into consecutive half-open windows of            *)
(* tidalDayHours from the first timestamp, a sample lying in at most one;  *)
(* only the interior samples of a window of at least 3 samples are         *)
(* classified: a high is >= both neighbours and > one, a low is <= both    *)
(* and < one, never both; a window of 2 samples gives no extremum; inside  *)
(* a plateau only its edge samples are classified.                         *)
C23_WindowExtremes == [][C23_Step]_vars

(* the first window held the plateau 0, 3000, 3000, 3000, 0: its two edge  *)
(* samples were taken as highs, its middle sample was not                  *)
C23_Witness ==
    /\ pc = "scan"
    /\ series.day = 1
    /\ series.tidalDayHours = TIDAL_DAY
    /\ Len(series.heights) >= 5
    /\ SubSeq(series.heights, 1, 5) = <<0, 3000, 3000, 3000, 0>>
    /\ series.st.allHighs = <<3000, 3000>>
    /\ series.st.allLows = <<>>

RECURSIVE SumFn(_)
SumFn(f) ==
    IF DOMAIN f = {} THEN 0
    ELSE LET x == CHOOSE x \in DOMAIN f : TRUE
         IN  f[x] + SumFn([y \in (DOMAIN f) \ {x} |-> f[y]])

(* r is the quotient num / den rounded to the nearest whole millimetre, or *)
(* not a number when there is nothing to average                           *)
IsRounded(r, num, den) ==
    IF den = 0 THEN r = NaN
    ELSE 2 * den * r - den <= 2 * num /\ 2 * num < 2 * den * r + den

(* the tidal days of the series of a call: the windows that start before   *)
(* the last timestamp                                                      *)
TidalDays ==
    { w \in 0..MaxDays :
        series.times[1] + w * series.tidalDayHours
            < series.times[Len(series.times)] }

DaySamples(w) ==
    WindowSamples(series.times,
                  series.times[1] + w * series.tidalDayHours,
                  series.tidalDayHours)

DayInterior(w) ==
    IF Cardinality(DaySamples(w)) >= 3
    THEN { k \in DaySamples(w) : k - 1 \in DaySamples(w)
                                   /\ k + 1 \in DaySamples(w) }
    ELSE {}

DayHighs(w) ==
    { k \in DayInterior(w) :
        /\ series.heights[k] >= series.heights[k - 1]
        /\ series.heights[k] >= series.heights[k + 1]
        /\ (series.heights[k] > series.heights[k - 1]
              \/ series.heights[k] > series.heights[k + 1]) }

DayLows(w) ==
    { k \in DayInterior(w) :
        /\ series.heights[k] <= series.heights[k - 1]
        /\ series.heights[k] <= series.heights[k + 1]
        /\ (series.heights[k] < series.heights[k - 1]
              \/ series.heights[k] < series.heights[k + 1]) }

HeightOf(S) == [k \in S |-> series.heights[k]]

Highest(S) == CHOOSE h \in { series.heights[k] : k \in S } :
                  \A k \in S : h >= series.heights[k]

Lowest(S) == CHOOSE h \in { series.heights[k] : k \in S } :
                 \A k \in S : h <= series.heights[k]

(* C24: the datums returned for a series are the reference aggregates,     *)
(* each rounded to 3 decimals: MHHW the mean over the windows with a high  *)
(* of the window's highest high, MHW the mean of all highs, MLW the mean   *)
(* of all lows, MLLW the mean over the windows with a low of the window's  *)
(* lowest low, MSL the mean of every sample, MTL the half sum of the mean  *)
(* of the highs and the mean of the lows, LAT the lowest sample.           *)
C24_ReferenceAggregates ==
    (pc = "scanned" /\ ~series.out.threw) =>
      LET d == series.out.datums
          all == 1..Len(series.heights)
          highs == UNION { DayHighs(w) : w \in TidalDays }
          lows == UNION { DayLows(w) : w \in TidalDays }
          highDays == { w \in TidalDays : DayHighs(w) # {} }
          lowDays == { w \in TidalDays : DayLows(w) # {} }
          sumHighs == SumFn(HeightOf(highs))
          sumLows == SumFn(HeightOf(lows))
          nHighs == Cardinality(highs)
          nLows == Cardinality(lows)
      IN  /\ IsRounded(d.MHHW,
                       SumFn([w \in highDays |-> Highest(DayHighs(w))]),
                       Cardinality(highDays))
          /\ IsRounded(d.MHW, sumHighs, nHighs)
          /\ IsRounded(d.MLW, sumLows, nLows)
          /\ IsRounded(d.MLLW,
                       SumFn([w \in lowDays |-> Lowest(DayLows(w))]),
                       Cardinality(lowDays))
          /\ IsRounded(d.MSL, SumFn(HeightOf(all)), Cardinality(all))
          /\ IsRounded(d.MTL, sumHighs * nLows + sumLows * nHighs,
                       2 * nHighs * nLows)
          /\ d.LAT = Lowest(all)

(* a series whose first tidal day has the highs 3000 and 5000 and whose    *)
(* second has the high 3000: MHHW 4000 is the mean over the two days, MHW  *)
(* 3667 the mean of the three highs                                        *)
C24_Witness ==
    /\ pc = "scanned"
    /\ ~series.out.threw
    /\ series.tidalDayHours = TIDAL_DAY
    /\ series.heights = <<0, 3000, 0, 5000, 0, 0, 3000, 0>>
    /\ series.out.datums.MHHW = 4000
    /\ series.out.datums.MHW = 3667
    /\ series.out.datums.MLW = 0

(* the record Phase 3 is to persist for the surviving candidate c when its *)
(* datums are computed: the datums and the resolved window of computeDatums *)
ComputedRecord(c) ==
    LET result == computeDatums(c.harmonic_constituents, c.epoch)
    IN  StationData(c, result.datums,
                    [start |-> result.epochStart, end |-> result.epochEnd])

(* C25: when Phase 3 reaches a surviving candidate that has no reusable    *)
(* persisted datums and whose computeDatums call succeeds, the run can     *)
(* persist (it does whenever normalize and save do not fail) a record      *)
(* carrying the datums computeDatums returned and, as epoch, the resolved  *)
(* start and end computeDatums returned.                                   *)
C25_ComputedDatumsPersisted ==
    ( /\ pc = "save"
      /\ i <= Len(surviving)
      /\ ~ReusesExisting(candidateId(surviving[i]))
      /\ ~computeDatums(surviving[i].harmonic_constituents,
                        surviving[i].epoch).threw )
    => ENABLED ( /\ SaveStation
                 /\ files' = WriteFile(files, candidateId(surviving[i]),
                                       ComputedRecord(surviving[i])) )

C26_Step ==
    (pc = "scan" /\ pc' = "scan") =>
        /\ series'.st.dayStartTime > series.st.dayStartTime
        /\ series'.st.idx >= series.st.idx

(* C26: for every tidalDayHours and stepHours a caller passes, every       *)
(* iteration of the tidal-day loop moves the window start strictly forward *)
(* (so the loop reaches the last timestamp and computeDatums terminates)   *)
(* and never moves the sample index backwards.                             *)
C26_LoopAdvances == [][C26_Step]_vars

(* C27: at the end of the filter the surviving candidates and the removed  *)
(* ids partition the batch, and every removed id is counted by exactly one *)
(* step: noaaSourceCount + nearNoaaCount + qualityRemovals +               *)
(* duplicateCount is the size of the removed set.                          *)
C27_CountersPartition ==
    /\ pc \in {"step1a", "step1b", "step2", "step3", "summary"} =>
         /\ removed \subseteq Ids(candidates)
         /\ noaaSourceCount + nearNoaaCount + qualityRemovals + duplicateCount
              = Cardinality(removed)
    /\ AfterFilter =>
         /\ Ids(surviving) \cap removed = {}
         /\ Ids(surviving) \cup removed = Ids(candidates)
         /\ Len(surviving) + Cardinality(removed) = Len(candidates)
         /\ noaaSourceCount + nearNoaaCount + qualityRemovals + duplicateCount
              = Cardinality(removed)

(* a filter that removed one candidate beside the NOAA station and one     *)
(* flagged candidate, and left one to survive                              *)
C27_Witness ==
    /\ pc = "delete"
    /\ nearNoaaCount = 1
    /\ qualityRemovals = 1
    /\ Cardinality(removed) = 2
    /\ Len(surviving) = Len(candidates) - 2

(* the candidates that Steps 1a, 1b and 2 did not remove: the ids Step 3   *)
(* removes are the removed ids it also finalized                           *)
ReachesStep3(k) == candidateId(candidates[k]) \notin removed \ processed

TopRanked(k) ==
    /\ ReachesStep3(k)
    /\ \A m \in 1..Len(candidates) :
         (m # k /\ ReachesStep3(m))
             => compareStationPriority(candidates[k], candidates[m]) < 0

(* C28: among the candidates that reach Step 3, the one that               *)
(* compareStationPriority ranks before every other is never removed by     *)
(* Step 3 and is in the surviving set, whatever the order of the batch.    *)
C28_BestEntrantSurvives ==
    /\ pc \in {"step3", "summary"} =>
         \A k \in 1..Len(candidates) :
             TopRanked(k) => candidateId(candidates[k]) \notin removed
    /\ AfterFilter =>
         \A k \in 1..Len(candidates) :
             TopRanked(k) => candidateId(candidates[k]) \in Ids(surviving)

(* three candidates reached Step 3, the top-ranked one last in the batch   *)
(* and within 50 m of an earlier one: it was grouped, kept, and survives   *)
C28_Witness ==
    /\ pc = "delete"
    /\ Len(candidates) >= 3
    /\ removed \subseteq processed
    /\ duplicateCount > 0
    /\ TopRanked(Len(candidates))
    /\ \E m \in 1..(Len(candidates) - 1) :
         /\ Within(candidates[m], candidates[Len(candidates)],
                   MIN_DISTANCE_TICON)
         /\ candidateId(candidates[m]) \in removed
    /\ candidateId(candidates[Len(candidates)]) \in Ids(surviving)

(* C29: for every candidate that Step 3 removed there is a surviving       *)
(* candidate that compareStationPriority ranks before it and that lies     *)
(* within 100 m of it (twice MIN_DISTANCE_TICON): the kept member of its   *)
(* group.                                                                  *)
C29_CoverageKept ==
    AfterFilter =>
        \A k \in 1..Len(candidates) :
            candidateId(candidates[k]) \in removed \cap processed =>
                \E s \in 1..Len(surviving) :
                    /\ compareStationPriority(surviving[s], candidates[k]) < 0
                    /\ Within(surviving[s], candidates[k],
                              2 * MIN_DISTANCE_TICON)
                    /\ candidateId(surviving[s]) \in processed

(* a group formed around the middle of the chain 0 m, 50 m, 100 m: the     *)
(* kept member and one removed member are exactly 100 m apart              *)
C29_Witness ==
    /\ pc = "delete"
    /\ duplicateCount = 2
    /\ Len(surviving) = 1
    /\ \E k \in 1..Len(candidates) :
         /\ candidateId(candidates[k]) \in removed \cap processed
         /\ distance(surviving[1].latitude, candidates[k].latitude)
              = 2 * MIN_DISTANCE_TICON
         /\ compareStationPriority(surviving[1], candidates[k]) < 0

(* C30: in the surviving set no candidate carrying the quality-control     *)
(* caveat lies within 100 m of a surviving candidate that carries none,    *)
(* although Step 3 may remove caveat-free neighbours after Step 2.         *)
C30_NoFlaggedBesideClean ==
    AfterFilter =>
        \A a, b \in 1..Len(surviving) :
            ( /\ hasQualityIssues(surviving[a])
              /\ ~hasQualityIssues(surviving[b]) )
            => ~Within(surviving[a], surviving[b], QUALITY_DISTANCE)

(* a flagged candidate was superseded by a caveat-free neighbour 100 m     *)
(* away, which Step 3 then removed as the duplicate of a better candidate  *)
(* 150 m from the flagged one: the only survivor is that candidate         *)
C30_Witness ==
    /\ pc = "delete"
    /\ qualityRemovals = 1
    /\ duplicateCount = 1
    /\ Len(surviving) = 1
    /\ ~hasQualityIssues(surviving[1])
    /\ \E f, c \in 1..Len(candidates) :
         /\ hasQualityIssues(candidates[f])
         /\ candidateId(candidates[f]) \in removed \ processed
         /\ ~hasQualityIssues(candidates[c])
         /\ candidateId(candidates[c]) \in removed \cap processed
         /\ distance(candidates[f].latitude, candidates[c].latitude)
              = QUALITY_DISTANCE
         /\ distance(candidates[f].latitude, surviving[1].latitude) = 150

=============================================================================
